---- MODULE Spec2Model ----
(***************************************************************************)
(* Veyra storefront theme: the service worker of                           *)
(* theme/assets/service-worker.js as a state machine (Spec, SpecClassify), *)
(* and two page scripts as state machines of their own: the recently       *)
(* viewed list of theme/assets/recently-viewed.js (SpecRecentlyViewed, and *)
(* SpecStored for a first visit that finds a text that is no JSON) and the *)
(* suggestions of theme/assets/search-autocomplete.js (SpecAutocomplete,   *)
(* SpecAutocompleteLive with the progress of timers and fetches, and       *)
(* SpecNavigate for the arrow keys).                                       *)
(*                                                                         *)
(* A URL is a record [origin, path]; origins and paths are strings, and    *)
(* the string tests of the code (includes, startsWith) are computed on     *)
(* them character by character.  A response is a record [src, ok, body].   *)
(* Every await of an executor is a step of its request; a cache.put that   *)
(* the code does not await is an operation in flight (pendingPuts) that    *)
(* completes in a later step.  The worker is installed and activated       *)
(* before the browser dispatches fetch events to it.                       *)
(***************************************************************************)
EXTENDS Integers, Sequences, FiniteSets, TLC

(* ------------------------------ bounds -------------------------------- *)

\* Fetch, message and sync events the worker handles in one behaviour.
MaxRequests == 2

\* Distinct bodies the origin server can answer with (1..MaxBody).
MaxBody == 2

(* -------------------------------- state -------------------------------- *)

VARIABLES
  requests,      \* the fetch events handled so far, in arrival order
  cacheStorage,  \* CacheStorage: partition name -> (URL -> response)
  pendingPuts,   \* cache.put calls issued and not yet completed
  cachesAvailable, \* typeof caches !== 'undefined' in this worker context
  worker,        \* lifecycle of this worker: state, skipWaiting, clients.claim
  control,       \* the message and sync events handled so far, in arrival order
  clsRequest,    \* classifier harness: the request handed to the classifier
  clsTag,        \* classifier harness: the tag it returned ("none" before)
  localStorage,  \* recently-viewed.js: the list stored under storageKey
  location,      \* recently-viewed.js: the page of the latest visit
  grid,          \* recently-viewed.js: what the page's grid shows
  recency,       \* history: the products viewed so far, latest view first
  now,           \* search-autocomplete.js: the page's clock, in ms
  inputValue,    \* the value of each search input
  timers,        \* setTimeout: the debounce timers that are set and not cleared
  hideTimers,    \* setTimeout: the pending display:none timers of hideDropdown
  debounceTimers, \* this.debounceTimers: input -> the timer set last for it
  isLoading,     \* this.isLoading
  suggestFetches, \* the suggest.json fetches in flight
  dropdowns,     \* this.dropdowns: input -> its dropdown element
  typed,         \* history: the number of input events so far
  lastInputAt,   \* history: when each input had its latest input event
  fetched        \* history: a fetch was started for the input since that event

\* The state of recently-viewed.js.
rvVars == << localStorage, location, grid, recency >>

\* The state of search-autocomplete.js.
acVars ==
  << now, inputValue, timers, hideTimers, debounceTimers, isLoading, suggestFetches,
     dropdowns, typed, lastInputAt, fetched >>

\* The state of the scripts that run in the page, not in the worker.
pageVars == << rvVars, acVars >>

vars ==
  << requests, cacheStorage, pendingPuts, cachesAvailable, worker, control,
     clsRequest, clsTag, pageVars >>

(* ---------------------------- configuration --------------------------- *)

CACHE_NAME == "veyra-clothing-v1.0.0"

STATIC_CACHE == "veyra-static-v1.0.0"

DYNAMIC_CACHE == "veyra-dynamic-v1.0.0"

CACHE_STRATEGIES ==
  [STATIC |-> "cache-first", DYNAMIC |-> "network-first", HYBRID |-> "stale-while-revalidate"]

STATIC_ASSETS ==
  << "/assets/base.css", "/assets/header.css", "/assets/hero.css",
     "/assets/product-showcase.css", "/assets/main-cart.css", "/assets/footer.css",
     "/assets/performance.js", "/assets/service-worker.js" >>

HYBRID_ROUTES == << "/collections/", "/products/", "/pages/", "/blogs/" >>

staticExtensions ==
  << ".css", ".js", ".png", ".jpg", ".jpeg", ".gif", ".webp", ".svg", ".woff", ".woff2", ".ttf" >>

\* self.location.origin
SelfOrigin == "https://veyra.shop"

(* --------------------------- string functions ------------------------- *)

\* String.prototype.includes
Includes(s, t) ==
  \E i \in 0..Len(s) : i + Len(t) <= Len(s) /\ SubSeq(s, i + 1, i + Len(t)) = t

\* String.prototype.startsWith
StartsWith(s, t) == Len(t) <= Len(s) /\ SubSeq(s, 1, Len(t)) = t

\* String.prototype.endsWith (used by the properties only)
EndsWith(s, t) == Len(t) <= Len(s) /\ SubSeq(s, Len(s) - Len(t) + 1, Len(s)) = t

(* ------------------------------ classifier ---------------------------- *)

\* isStaticAsset with the extension test lost: only the manifest is consulted.
isStaticAssetManifestOnly(request) ==
  LET pathname == request.url.path
  IN  \E k \in 1..Len(STATIC_ASSETS) : Includes(pathname, STATIC_ASSETS[k])

\* staticExtensions.some(...) || STATIC_ASSETS.some(...)
isStaticAsset(request) ==
  LET pathname == request.url.path
  IN  \/ \E k \in 1..Len(staticExtensions) : Includes(pathname, staticExtensions[k])
      \/ \E k \in 1..Len(STATIC_ASSETS) : Includes(pathname, STATIC_ASSETS[k])

\* isHybridRoute comparing with === instead of startsWith.
isHybridRouteExact(pathname) ==
  \E k \in 1..Len(HYBRID_ROUTES) : pathname = HYBRID_ROUTES[k]

\* HYBRID_ROUTES.some(route => pathname.startsWith(route))
isHybridRoute(pathname) ==
  \E k \in 1..Len(HYBRID_ROUTES) : StartsWith(pathname, HYBRID_ROUTES[k])

\* determineCachingStrategy consulting the dynamic partition: a URL already
\* cached there is treated as a hybrid route.
determineCachingStrategyByCache(request) ==
  IF isStaticAsset(request) THEN CACHE_STRATEGIES.STATIC
  ELSE IF isHybridRoute(request.url.path)
          \/ (DYNAMIC_CACHE \in DOMAIN cacheStorage
              /\ request.url \in DOMAIN cacheStorage[DYNAMIC_CACHE])
    THEN CACHE_STRATEGIES.HYBRID
  ELSE CACHE_STRATEGIES.DYNAMIC

determineCachingStrategy(request) ==
  IF isStaticAsset(request) THEN CACHE_STRATEGIES.STATIC
  ELSE IF isHybridRoute(request.url.path) THEN CACHE_STRATEGIES.HYBRID
  ELSE CACHE_STRATEGIES.DYNAMIC

(* ------------------------------ responses ----------------------------- *)

Bodies == 1..MaxBody

\* What fetch() resolves with: any status, any body of the origin server.
NetworkResponses == [src : {"network"}, ok : BOOLEAN, body : Bodies]

NoResponse == [src |-> "none", ok |-> FALSE, body |-> 0]

\* new Response(<markup with "You're Offline">, {headers}) : status 200
OfflineDocument == [src |-> "worker", ok |-> TRUE, body |-> 0]

Url(origin, path) == [origin |-> origin, path |-> path]

Request(method, origin, path) == [method |-> method, url |-> Url(origin, path)]

\* The fetch events of a behaviour: same-origin GETs of each kind, a
\* non-GET, a foreign origin, and an origin that extends the worker's own.
RequestShapes ==
  { Request("GET", SelfOrigin, "/assets/base.css"),
    Request("GET", SelfOrigin, "/collections/summer"),
    Request("GET", SelfOrigin, "/cart"),
    Request("GET", SelfOrigin, "/search/suggest.json"),
    Request("POST", SelfOrigin, "/cart"),
    Request("GET", "https://cdn.shopify.com", "/assets/base.css"),
    Request("GET", "https://veyra.shop.evil.io", "/cart") }

EmptyCache == [u \in {} |-> NoResponse]

\* caches.open(name): the partition, created empty on first open
Open(storage, name) ==
  IF name \in DOMAIN storage THEN storage ELSE (name :> EmptyCache) @@ storage

\* cache.match(request) on an opened storage
Match(storage, name, url) ==
  IF url \in DOMAIN storage[name] THEN storage[name][url] ELSE NoResponse

Hit(storage, name, url) == name \in DOMAIN storage /\ url \in DOMAIN storage[name]

\* The entries of the dynamic partition (none when it was never opened).
DynamicEntries(storage) ==
  IF DYNAMIC_CACHE \in DOMAIN storage THEN storage[DYNAMIC_CACHE] ELSE EmptyCache

\* The text of a response body: the markup getOfflineResponse builds, or
\* what the origin server sent.
BodyText(response) ==
  IF response.src = "worker"
    THEN "<title>Veyra Clothing - Offline</title><h1>You're Offline</h1>"
    ELSE "origin"

\* A handled fetch event.
\*   pc       where its handler stands            outcome  how it ended
\*   hit      its first cache lookup hit          net      how its fetch settled
\*   fetches  network fetches it issued           bg       the background revalidation
NewEvent(request) ==
  [ method |-> request.method, url |-> request.url, strategy |-> "none",
    pc |-> "event", outcome |-> "pending", response |-> NoResponse,
    hit |-> FALSE, net |-> "none", fetches |-> 0, bg |-> "none",
    readDynamic |-> FALSE ]

\* Partitions left by an earlier version of the worker: neither name is one
\* of the two current ones.
StalePartitions == { CACHE_NAME, "veyra-static-v0.9.0" }

StaleEntry == [src |-> "network", ok |-> TRUE, body |-> 1]

\* The storage an upgraded worker starts with (none without the Cache API).
InitialStorage ==
  IF cachesAvailable
    THEN [n \in StalePartitions |->
            [u \in {Url(SelfOrigin, "/assets/base.css")} |-> StaleEntry]]
    ELSE [n \in {} |-> EmptyCache]

\* The worker right after its script was evaluated.
NewWorker ==
  [ state |-> "parsed", skipWaiting |-> FALSE, claimed |-> FALSE,
    install |-> "none", precache |-> "none", deleting |-> {} ]

\* localStorage.getItem(storageKey) === null: nothing was stored yet.
NoItem == [stored |-> FALSE, value |-> << >>]

\* A page: window.location.pathname, the title its meta tags give ("" when
\* it has none), whether it holds the recently-viewed grid, and the product
\* it shows ("" when it is no product page).
Page(pathname, title, hasGrid, product) ==
  [pathname |-> pathname, title |-> title, hasGrid |-> hasGrid, product |-> product]

HomePage == Page("/", "Veyra Clothing", TRUE, "")

\* A page without the #recently-viewed-grid element.
NoGrid == [display |-> "absent", cards |-> << >>]

\* recently-viewed.js before any visit: empty storage, no page loaded.
InitRecent ==
  /\ localStorage = NoItem
  /\ location = Page("", "", FALSE, "")
  /\ grid = NoGrid
  /\ recency = << >>

\* The two search inputs of the header: .header__search-input and
\* .header__mobile-search-input.
Inputs == { "desktop", "mobile" }

NoTimer == [input |-> "", query |-> "", due |-> 0]

\* createDropdown(): empty, display none.  selected holds the indices of
\* the items whose aria-selected is "true".
NewDropdown ==
  [innerHTML |-> "", query |-> "", items |-> 0, visible |-> FALSE, display |-> "none",
   selected |-> {}]

\* new SearchAutocomplete(): empty maps, isLoading false, a dropdown per input
InitAuto ==
  /\ now = 0
  /\ inputValue = [input \in Inputs |-> ""]
  /\ timers = {}
  /\ hideTimers = {}
  /\ debounceTimers = [input \in Inputs |-> NoTimer]
  /\ isLoading = FALSE
  /\ suggestFetches = {}
  /\ dropdowns = [input \in Inputs |-> NewDropdown]
  /\ typed = 0
  /\ lastInputAt = [input \in Inputs |-> 0]
  /\ fetched = [input \in Inputs |-> FALSE]

\* The page-side scripts before anything happened in the page.
InitPage == InitRecent /\ InitAuto

Init ==
  /\ requests = << >>
  /\ cachesAvailable \in BOOLEAN
  /\ cacheStorage = InitialStorage
  /\ pendingPuts = {}
  /\ worker = NewWorker
  /\ control = << >>
  /\ clsRequest = Request("GET", SelfOrigin, "/")
  /\ clsTag = "none"
  /\ InitPage

(* ------------------------------ lifecycle ------------------------------ *)

\* What the origin answers to the requests of cache.addAll: one deployment
\* serves every manifest asset alike (the build's files, or an error status),
\* or the network is down.
PrecacheAnswers == { r \in NetworkResponses : r.body = StaleEntry.body + 1 } \cup {NoResponse}

\* cache.addAll(STATIC_ASSETS): every asset stored, or (an answer missing or
\* not ok) nothing stored and the promise rejected.
AddAll(storage, answer) ==
  IF answer.ok
    THEN [storage EXCEPT ![STATIC_CACHE] =
            [u \in {Url(SelfOrigin, STATIC_ASSETS[k]) : k \in 1..Len(STATIC_ASSETS)}
               |-> answer] @@ @]
    ELSE storage

\* install listener with skipWaiting moved behind the catch: always called.
InstallPrecacheAlwaysSkip(answer) ==
  /\ worker.state = "installing"
  /\ cacheStorage' = AddAll(Open(cacheStorage, STATIC_CACHE), answer)
  /\ worker' = [worker EXCEPT !.state = "installed", !.install = "fulfilled",
                              !.precache = IF answer.ok THEN "stored" ELSE "failed",
                              !.skipWaiting = TRUE]
  /\ UNCHANGED << requests, pendingPuts, cachesAvailable, clsRequest, clsTag, control, pageVars >>

\* install listener: with the Cache API, caches.open(STATIC_CACHE) is awaited;
\* without it, event.waitUntil(self.skipWaiting())
InstallEvent ==
  /\ worker.state = "parsed"
  /\ worker' = IF cachesAvailable
                 THEN [worker EXCEPT !.state = "installing"]
                 ELSE [worker EXCEPT !.state = "installed", !.install = "fulfilled",
                                     !.skipWaiting = TRUE]
  /\ UNCHANGED << requests, cacheStorage, pendingPuts, cachesAvailable, clsRequest, clsTag, control, pageVars >>

\* install listener: cache.addAll settles; .then skipWaiting, .catch logs
InstallPrecache(answer) ==
  /\ worker.state = "installing"
  /\ cacheStorage' = AddAll(Open(cacheStorage, STATIC_CACHE), answer)
  /\ worker' = [worker EXCEPT !.state = "installed", !.install = "fulfilled",
                              !.precache = IF answer.ok THEN "stored" ELSE "failed",
                              !.skipWaiting = @ \/ answer.ok]
  /\ UNCHANGED << requests, pendingPuts, cachesAvailable, clsRequest, clsTag, control, pageVars >>

\* activate listener with || for &&: every partition is deleted.
ActivateEventDeleteAll ==
  /\ worker.state = "installed"
  /\ worker' = IF cachesAvailable
                 THEN [worker EXCEPT !.state = "activating",
                                     !.deleting = DOMAIN cacheStorage]
                 ELSE [worker EXCEPT !.state = "activated", !.claimed = TRUE]
  /\ UNCHANGED << requests, cacheStorage, pendingPuts, cachesAvailable, clsRequest, clsTag, control, pageVars >>

\* activate listener: caches.keys(), then caches.delete issued for every name
\* that is neither STATIC_CACHE nor DYNAMIC_CACHE; without the Cache API,
\* event.waitUntil(self.clients.claim())
ActivateEvent ==
  /\ worker.state = "installed"
  /\ worker' = IF cachesAvailable
                 THEN [worker EXCEPT !.state = "activating",
                                     !.deleting = { cacheName \in DOMAIN cacheStorage :
                                                      cacheName # STATIC_CACHE
                                                        /\ cacheName # DYNAMIC_CACHE }]
                 ELSE [worker EXCEPT !.state = "activated", !.claimed = TRUE]
  /\ UNCHANGED << requests, cacheStorage, pendingPuts, cachesAvailable, clsRequest, clsTag, control, pageVars >>

\* one caches.delete(cacheName) of the activate listener completes
DeleteCache(cacheName) ==
  /\ worker.state = "activating"
  /\ cacheName \in worker.deleting
  /\ cacheStorage' = [n \in DOMAIN cacheStorage \ {cacheName} |-> cacheStorage[n]]
  /\ worker' = [worker EXCEPT !.deleting = @ \ {cacheName}]
  /\ UNCHANGED << requests, pendingPuts, cachesAvailable, clsRequest, clsTag, control, pageVars >>

\* activate listener claiming the clients without waiting for Promise.all.
ActivateClaimEarly ==
  /\ worker.state = "activating"
  /\ worker' = [worker EXCEPT !.state = "activated", !.claimed = TRUE]
  /\ UNCHANGED << requests, cacheStorage, pendingPuts, cachesAvailable, clsRequest, clsTag, control, pageVars >>

\* activate listener: Promise.all settled, then self.clients.claim()
ActivateClaim ==
  /\ worker.state = "activating"
  /\ worker.deleting = {}
  /\ worker' = [worker EXCEPT !.state = "activated", !.claimed = TRUE]
  /\ UNCHANGED << requests, cacheStorage, pendingPuts, cachesAvailable, clsRequest, clsTag, control, pageVars >>

(* ---------------------------- fetch listener --------------------------- *)

\* The executor the listener hands the request to, run up to its first await.
Dispatch(ev, strategy) ==
  IF strategy = CACHE_STRATEGIES.STATIC
    THEN [ev EXCEPT !.strategy = strategy, !.pc = "cf_match"]
  ELSE IF strategy = CACHE_STRATEGIES.HYBRID
    THEN [ev EXCEPT !.strategy = strategy, !.pc = "swr_match"]
  ELSE [ev EXCEPT !.strategy = strategy, !.pc = "nf_fetch",
                  !.net = "pending", !.fetches = @ + 1]

\* The fetch listener without its typeof caches test.
FetchListenerNoCachesCheck(request) ==
  LET ev == NewEvent(request) IN
  IF request.method # "GET" \/ ~Includes(request.url.origin, SelfOrigin)
    THEN [ev EXCEPT !.pc = "passthrough", !.outcome = "default"]
  ELSE Dispatch(ev, determineCachingStrategy(request))

\* self.addEventListener('fetch', ...)
FetchListener(request) ==
  LET ev == NewEvent(request) IN
  IF request.method # "GET" \/ ~Includes(request.url.origin, SelfOrigin)
    THEN [ev EXCEPT !.pc = "passthrough", !.outcome = "default"]
  ELSE IF ~cachesAvailable
    THEN [ev EXCEPT !.pc = "passthrough", !.outcome = "default"]
  ELSE Dispatch(ev, determineCachingStrategy(request))

\* The browser dispatches fetch events to the activated worker only.
FetchEvent(request) ==
  /\ worker.state = "activated"
  /\ Len(requests) + Len(control) < MaxRequests
  /\ requests' = Append(requests, FetchListener(request))
  /\ UNCHANGED << cacheStorage, pendingPuts, clsRequest, clsTag, cachesAvailable, worker, control, pageVars >>

Set(i, ev) == requests' = [requests EXCEPT ![i] = ev]

Finish(ev, outcome, response) ==
  [ev EXCEPT !.pc = "done", !.outcome = outcome, !.response = response]

Put(name, url, response) == [cache |-> name, url |-> url, response |-> response]

(* ------------------------------ cacheFirst ----------------------------- *)

\* cacheFirst without the early return on a hit: the fetch is always issued.
CacheFirstMatchAlwaysFetch(i) ==
  LET ev == requests[i]
      storage == Open(cacheStorage, STATIC_CACHE)
      cachedResponse == Match(storage, STATIC_CACHE, ev.url)
  IN  /\ ev.pc = "cf_match"
      /\ cacheStorage' = storage
      /\ Set(i, [ev EXCEPT !.hit = cachedResponse # NoResponse, !.pc = "cf_fetch",
                           !.net = "pending", !.fetches = @ + 1])
      /\ UNCHANGED << pendingPuts, clsRequest, clsTag, cachesAvailable, worker, control, pageVars >>

\* caches.open(STATIC_CACHE); cache.match(request); on a miss, fetch(request)
CacheFirstMatch(i) ==
  LET ev == requests[i]
      storage == Open(cacheStorage, STATIC_CACHE)
      cachedResponse == Match(storage, STATIC_CACHE, ev.url)
  IN  /\ ev.pc = "cf_match"
      /\ cacheStorage' = storage
      /\ IF cachedResponse # NoResponse
           THEN Set(i, Finish([ev EXCEPT !.hit = TRUE], "cached", cachedResponse))
           ELSE Set(i, [ev EXCEPT !.pc = "cf_fetch", !.net = "pending", !.fetches = @ + 1])
      /\ UNCHANGED << pendingPuts, clsRequest, clsTag, cachesAvailable, worker, control, pageVars >>

\* cacheFirst storing into the dynamic partition instead of the static one.
CacheFirstResolveDynamic(i, networkResponse) ==
  LET ev == requests[i] IN
  /\ ev.pc = "cf_fetch"
  /\ pendingPuts' = IF networkResponse.ok
                      THEN pendingPuts \cup {Put(DYNAMIC_CACHE, ev.url, networkResponse)}
                      ELSE pendingPuts
  /\ Set(i, Finish([ev EXCEPT !.net = IF networkResponse.ok THEN "ok" ELSE "notok"],
                   "network", networkResponse))
  /\ UNCHANGED << cacheStorage, clsRequest, clsTag, cachesAvailable, worker, control, pageVars >>

\* cacheFirst without the test of networkResponse.ok before cache.put.
CacheFirstResolveAlwaysPut(i, networkResponse) ==
  LET ev == requests[i] IN
  /\ ev.pc = "cf_fetch"
  /\ pendingPuts' = pendingPuts \cup {Put(STATIC_CACHE, ev.url, networkResponse)}
  /\ Set(i, Finish([ev EXCEPT !.net = IF networkResponse.ok THEN "ok" ELSE "notok"],
                   "network", networkResponse))
  /\ UNCHANGED << cacheStorage, clsRequest, clsTag, cachesAvailable, worker, control, pageVars >>

\* fetch resolved: cache.put (not awaited) when ok, then return networkResponse
CacheFirstResolve(i, networkResponse) ==
  LET ev == requests[i] IN
  /\ ev.pc = "cf_fetch"
  /\ pendingPuts' = IF networkResponse.ok
                      THEN pendingPuts \cup {Put(STATIC_CACHE, ev.url, networkResponse)}
                      ELSE pendingPuts
  /\ Set(i, Finish([ev EXCEPT !.net = IF networkResponse.ok THEN "ok" ELSE "notok"],
                   "network", networkResponse))
  /\ UNCHANGED << cacheStorage, clsRequest, clsTag, cachesAvailable, worker, control, pageVars >>

\* cacheFirst with networkFirst's catch block: the offline document is returned.
CacheFirstRejectOffline(i) ==
  LET ev == requests[i] IN
  /\ ev.pc = "cf_fetch"
  /\ Set(i, Finish([ev EXCEPT !.net = "rejected"], "offline", OfflineDocument))
  /\ UNCHANGED << cacheStorage, pendingPuts, clsRequest, clsTag, cachesAvailable, worker, control, pageVars >>

\* fetch rejected: catch (error) { throw error }
CacheFirstReject(i) ==
  LET ev == requests[i] IN
  /\ ev.pc = "cf_fetch"
  /\ Set(i, Finish([ev EXCEPT !.net = "rejected"], "rejected", NoResponse))
  /\ UNCHANGED << cacheStorage, pendingPuts, clsRequest, clsTag, cachesAvailable, worker, control, pageVars >>

(* ----------------------------- networkFirst ---------------------------- *)

\* networkFirst taking a non-ok status for a failure: it enters the catch block.
NetworkFirstResolveOkOnly(i, networkResponse) ==
  LET ev == requests[i] IN
  /\ ev.pc = "nf_fetch"
  /\ IF networkResponse.ok
       THEN Set(i, [ev EXCEPT !.pc = "nf_open", !.net = "ok", !.response = networkResponse])
       ELSE Set(i, [ev EXCEPT !.pc = "nf_fallback", !.net = "notok"])
  /\ UNCHANGED << cacheStorage, pendingPuts, clsRequest, clsTag, cachesAvailable, worker, control, pageVars >>

\* fetch resolved: when ok go on to caches.open(DYNAMIC_CACHE), else return it
NetworkFirstResolve(i, networkResponse) ==
  LET ev == requests[i] IN
  /\ ev.pc = "nf_fetch"
  /\ IF networkResponse.ok
       THEN Set(i, [ev EXCEPT !.pc = "nf_open", !.net = "ok", !.response = networkResponse])
       ELSE Set(i, Finish([ev EXCEPT !.net = "notok"], "network", networkResponse))
  /\ UNCHANGED << cacheStorage, pendingPuts, clsRequest, clsTag, cachesAvailable, worker, control, pageVars >>

\* networkFirst storing into the static partition instead of the dynamic one.
NetworkFirstStoreStatic(i) ==
  LET ev == requests[i] IN
  /\ ev.pc = "nf_open"
  /\ cacheStorage' = Open(cacheStorage, STATIC_CACHE)
  /\ pendingPuts' = pendingPuts \cup {Put(STATIC_CACHE, ev.url, ev.response)}
  /\ Set(i, Finish(ev, "network", ev.response))
  /\ UNCHANGED << clsRequest, clsTag, cachesAvailable, worker, control, pageVars >>

\* caches.open(DYNAMIC_CACHE) resolved: cache.put (not awaited), return networkResponse
NetworkFirstStore(i) ==
  LET ev == requests[i] IN
  /\ ev.pc = "nf_open"
  /\ cacheStorage' = Open(cacheStorage, DYNAMIC_CACHE)
  /\ pendingPuts' = pendingPuts \cup {Put(DYNAMIC_CACHE, ev.url, ev.response)}
  /\ Set(i, Finish(ev, "network", ev.response))
  /\ UNCHANGED << clsRequest, clsTag, cachesAvailable, worker, control, pageVars >>

\* networkFirst with cacheFirst's catch block: the error is thrown again.
NetworkFirstRejectThrow(i) ==
  LET ev == requests[i] IN
  /\ ev.pc = "nf_fetch"
  /\ Set(i, Finish([ev EXCEPT !.net = "rejected"], "rejected", NoResponse))
  /\ UNCHANGED << cacheStorage, pendingPuts, clsRequest, clsTag, cachesAvailable, worker, control, pageVars >>

\* networkFirst racing its fetch against a timer: the catch block is entered
\* while the fetch is still pending.
NetworkFirstRejectTimeout(i) ==
  LET ev == requests[i] IN
  /\ ev.pc = "nf_fetch"
  /\ Set(i, [ev EXCEPT !.pc = "nf_fallback"])
  /\ UNCHANGED << cacheStorage, pendingPuts, clsRequest, clsTag, cachesAvailable, worker, control, pageVars >>

\* fetch rejected: enter the catch block, up to caches.open(DYNAMIC_CACHE)
NetworkFirstReject(i) ==
  LET ev == requests[i] IN
  /\ ev.pc = "nf_fetch"
  /\ Set(i, [ev EXCEPT !.pc = "nf_fallback", !.net = "rejected"])
  /\ UNCHANGED << cacheStorage, pendingPuts, clsRequest, clsTag, cachesAvailable, worker, control, pageVars >>

\* networkFirst's catch block without the cache lookup: always the offline page.
NetworkFirstFallbackNoCache(i) ==
  LET ev == requests[i] IN
  /\ ev.pc = "nf_fallback"
  /\ cacheStorage' = Open(cacheStorage, DYNAMIC_CACHE)
  /\ Set(i, [ev EXCEPT !.readDynamic = TRUE, !.pc = "nf_offline"])
  /\ UNCHANGED << pendingPuts, clsRequest, clsTag, cachesAvailable, worker, control, pageVars >>

\* catch block: cache.match(request) in the dynamic partition
NetworkFirstFallback(i) ==
  LET ev == requests[i]
      storage == Open(cacheStorage, DYNAMIC_CACHE)
      cachedResponse == Match(storage, DYNAMIC_CACHE, ev.url)
  IN  /\ ev.pc = "nf_fallback"
      /\ cacheStorage' = storage
      /\ IF cachedResponse # NoResponse
           THEN Set(i, Finish([ev EXCEPT !.readDynamic = TRUE], "cached", cachedResponse))
           ELSE Set(i, [ev EXCEPT !.readDynamic = TRUE, !.pc = "nf_offline"])
      /\ UNCHANGED << pendingPuts, clsRequest, clsTag, cachesAvailable, worker, control, pageVars >>

\* getOfflineResponse keeping the document it built in the dynamic partition.
getOfflineResponseStored(i) ==
  LET ev == requests[i]
      storage == Open(cacheStorage, STATIC_CACHE)
      offlineResponse == Match(storage, STATIC_CACHE, Url(SelfOrigin, "/offline.html"))
  IN  /\ ev.pc = "nf_offline"
      /\ cacheStorage' = storage
      /\ IF offlineResponse # NoResponse
           THEN /\ Set(i, Finish(ev, "offline", offlineResponse))
                /\ pendingPuts' = pendingPuts
           ELSE /\ Set(i, Finish(ev, "offline", OfflineDocument))
                /\ pendingPuts' = pendingPuts \cup {Put(DYNAMIC_CACHE, ev.url, OfflineDocument)}
      /\ UNCHANGED << clsRequest, clsTag, cachesAvailable, worker, control, pageVars >>

\* getOfflineResponse(): /offline.html of the static partition, else the document
getOfflineResponse(i) ==
  LET ev == requests[i]
      storage == Open(cacheStorage, STATIC_CACHE)
      offlineResponse == Match(storage, STATIC_CACHE, Url(SelfOrigin, "/offline.html"))
  IN  /\ ev.pc = "nf_offline"
      /\ cacheStorage' = storage
      /\ IF offlineResponse # NoResponse
           THEN Set(i, Finish(ev, "offline", offlineResponse))
           ELSE Set(i, Finish(ev, "offline", OfflineDocument))
      /\ UNCHANGED << pendingPuts, clsRequest, clsTag, cachesAvailable, worker, control, pageVars >>

(* ------------------------- staleWhileRevalidate ------------------------ *)

\* staleWhileRevalidate awaiting the network even on a hit.
StaleWhileRevalidateMatchAwait(i) ==
  LET ev == requests[i]
      storage == Open(cacheStorage, DYNAMIC_CACHE)
      cachedResponse == Match(storage, DYNAMIC_CACHE, ev.url)
  IN  /\ ev.pc = "swr_match"
      /\ cacheStorage' = storage
      /\ Set(i, [ev EXCEPT !.hit = cachedResponse # NoResponse, !.readDynamic = TRUE,
                           !.pc = "nf_fetch", !.net = "pending", !.fetches = @ + 1])
      /\ UNCHANGED << pendingPuts, clsRequest, clsTag, cachesAvailable, worker, control, pageVars >>

\* staleWhileRevalidate delegating a miss to cacheFirst's fetch.
StaleWhileRevalidateMatchCacheFirst(i) ==
  LET ev == requests[i]
      storage == Open(cacheStorage, DYNAMIC_CACHE)
      cachedResponse == Match(storage, DYNAMIC_CACHE, ev.url)
  IN  /\ ev.pc = "swr_match"
      /\ cacheStorage' = storage
      /\ IF cachedResponse # NoResponse
           THEN Set(i, Finish([ev EXCEPT !.hit = TRUE, !.readDynamic = TRUE,
                                         !.bg = "pending", !.fetches = @ + 1],
                              "cached", cachedResponse))
           ELSE Set(i, [ev EXCEPT !.readDynamic = TRUE, !.pc = "cf_fetch",
                                  !.net = "pending", !.fetches = @ + 1])
      /\ UNCHANGED << pendingPuts, clsRequest, clsTag, cachesAvailable, worker, control, pageVars >>

\* caches.open(DYNAMIC_CACHE); cache.match(request); hit: background fetch and
\* return the cached response; miss: networkFirst(request) up to its fetch
StaleWhileRevalidateMatch(i) ==
  LET ev == requests[i]
      storage == Open(cacheStorage, DYNAMIC_CACHE)
      cachedResponse == Match(storage, DYNAMIC_CACHE, ev.url)
  IN  /\ ev.pc = "swr_match"
      /\ cacheStorage' = storage
      /\ IF cachedResponse # NoResponse
           THEN Set(i, Finish([ev EXCEPT !.hit = TRUE, !.readDynamic = TRUE,
                                         !.bg = "pending", !.fetches = @ + 1],
                              "cached", cachedResponse))
           ELSE Set(i, [ev EXCEPT !.readDynamic = TRUE, !.pc = "nf_fetch",
                                  !.net = "pending", !.fetches = @ + 1])
      /\ UNCHANGED << pendingPuts, clsRequest, clsTag, cachesAvailable, worker, control, pageVars >>

\* the background update without its cache.put.
RevalidateResolveNoPut(i, response) ==
  LET ev == requests[i] IN
  /\ ev.bg = "pending"
  /\ pendingPuts' = pendingPuts
  /\ Set(i, [ev EXCEPT !.bg = IF response.ok THEN "ok" ELSE "notok"])
  /\ UNCHANGED << cacheStorage, clsRequest, clsTag, cachesAvailable, worker, control, pageVars >>

\* background fetch resolved: cache.put(request, response) when ok
RevalidateResolve(i, response) ==
  LET ev == requests[i] IN
  /\ ev.bg = "pending"
  /\ pendingPuts' = IF response.ok
                      THEN pendingPuts \cup {Put(DYNAMIC_CACHE, ev.url, response)}
                      ELSE pendingPuts
  /\ Set(i, [ev EXCEPT !.bg = IF response.ok THEN "ok" ELSE "notok"])
  /\ UNCHANGED << cacheStorage, clsRequest, clsTag, cachesAvailable, worker, control, pageVars >>

\* the background update dropping the stale entry when its fetch rejects.
RevalidateRejectEvict(i) ==
  LET ev == requests[i]
      dynamic == DynamicEntries(cacheStorage)
  IN
  /\ ev.bg = "pending"
  /\ Set(i, [ev EXCEPT !.bg = "rejected"])
  /\ cacheStorage' =
       [Open(cacheStorage, DYNAMIC_CACHE) EXCEPT
          ![DYNAMIC_CACHE] = [u \in DOMAIN dynamic \ {ev.url} |-> dynamic[u]]]
  /\ UNCHANGED << pendingPuts, clsRequest, clsTag, cachesAvailable, worker, control, pageVars >>

\* background fetch rejected: .catch logs it
RevalidateReject(i) ==
  LET ev == requests[i] IN
  /\ ev.bg = "pending"
  /\ Set(i, [ev EXCEPT !.bg = "rejected"])
  /\ UNCHANGED << cacheStorage, pendingPuts, clsRequest, clsTag, cachesAvailable, worker, control, pageVars >>

(* ------------------------------ Cache.put ------------------------------ *)

\* cache.put that keeps an entry already stored under the URL.
CompletePutKeepFirst(p) ==
  /\ p \in pendingPuts
  /\ pendingPuts' = pendingPuts \ {p}
  /\ cacheStorage' =
       [Open(cacheStorage, p.cache) EXCEPT ![p.cache] = @ @@ (p.url :> p.response)]
  /\ UNCHANGED << requests, clsRequest, clsTag, cachesAvailable, worker, control, pageVars >>

\* cache.put on a partition limited to one entry: the others are evicted.
CompletePutEvicting(p) ==
  /\ p \in pendingPuts
  /\ pendingPuts' = pendingPuts \ {p}
  /\ cacheStorage' =
       [Open(cacheStorage, p.cache) EXCEPT ![p.cache] = (p.url :> p.response)]
  /\ UNCHANGED << requests, clsRequest, clsTag, cachesAvailable, worker, control, pageVars >>

\* A cache.put issued earlier completes: the entry is added or overwritten.
CompletePut(p) ==
  /\ p \in pendingPuts
  /\ pendingPuts' = pendingPuts \ {p}
  /\ cacheStorage' =
       [Open(cacheStorage, p.cache) EXCEPT ![p.cache] = (p.url :> p.response) @@ @]
  /\ UNCHANGED << requests, clsRequest, clsTag, cachesAvailable, worker, control, pageVars >>

(* ------------------------- message and sync events --------------------- *)

\* What a page posts to the worker: no data, the two control messages, a
\* type the worker does not know; with the number of ports transferred.
MessageShapes ==
  { [type |-> "null", ports |-> 0],
    [type |-> "SKIP_WAITING", ports |-> 0],
    [type |-> "GET_CACHE_INFO", ports |-> 1],
    [type |-> "GET_CACHE_INFO", ports |-> 0],
    [type |-> "PING", ports |-> 1] }

\* The tags a sync event can carry.
SyncTags == { "background-sync", "cart-sync" }

\* The reply counting the entries of the static partition instead of the list.
CacheInfoFromStorage ==
  [ cacheNames |-> << STATIC_CACHE, DYNAMIC_CACHE >>,
    staticAssets |-> IF STATIC_CACHE \in DOMAIN cacheStorage
                       THEN Cardinality(DOMAIN cacheStorage[STATIC_CACHE]) ELSE 0,
    strategies |-> CACHE_STRATEGIES ]

\* { cacheNames: [STATIC_CACHE, DYNAMIC_CACHE], staticAssets: STATIC_ASSETS.length,
\*   strategies: CACHE_STRATEGIES }
CacheInfo ==
  [ cacheNames |-> << STATIC_CACHE, DYNAMIC_CACHE >>,
    staticAssets |-> Len(STATIC_ASSETS),
    strategies |-> CACHE_STRATEGIES ]

\* A handled message or sync event.
\*   skipWaiting  self.skipWaiting() was called     replies    posted on ports[0]
\*   threw        the listener threw                ran        performBackgroundSync ran
\*   pending      the list getPendingActions gave   performed  performAction calls
\*   removed      removePendingAction calls
NewControl(kind, type, ports) ==
  [ kind |-> kind, type |-> type, ports |-> ports, skipWaiting |-> FALSE,
    replies |-> << >>, threw |-> FALSE, ran |-> FALSE, pending |-> << >>,
    performed |-> 0, removed |-> 0 ]

\* self.addEventListener('message', ...): event.ports[0] of a message without
\* ports is undefined, and postMessage on it throws
MessageListener(message) ==
  LET ev == NewControl("message", message.type, message.ports)
      skipped == IF message.type = "SKIP_WAITING" THEN [ev EXCEPT !.skipWaiting = TRUE] ELSE ev
  IN  IF message.type # "GET_CACHE_INFO" THEN skipped
      ELSE IF message.ports = 0 THEN [skipped EXCEPT !.threw = TRUE]
      ELSE [skipped EXCEPT !.replies = Append(@, CacheInfo)]

\* A message event is dispatched to the worker, whatever its lifecycle state.
MessageEvent(message) ==
  /\ Len(requests) + Len(control) < MaxRequests
  /\ control' = Append(control, MessageListener(message))
  /\ worker' = IF MessageListener(message).skipWaiting
                 THEN [worker EXCEPT !.skipWaiting = TRUE] ELSE worker
  /\ UNCHANGED << requests, cacheStorage, pendingPuts, cachesAvailable, clsRequest, clsTag, pageVars >>

\* A queue that holds an offline cart addition.
getPendingActionsQueued == << [id |-> "cart-add"] >>

\* getPendingActions(): return []
getPendingActions == << >>

\* performBackgroundSync(): for each pending action, performAction and
\* removePendingAction (both only log, neither throws)
performBackgroundSync(ev) ==
  LET pendingActions == getPendingActions
  IN  [ev EXCEPT !.ran = TRUE, !.pending = pendingActions,
                 !.performed = Len(pendingActions), !.removed = Len(pendingActions)]

\* self.addEventListener('sync', ...)
SyncListener(tag) ==
  LET ev == NewControl("sync", tag, 0)
  IN  IF tag = "background-sync" THEN performBackgroundSync(ev) ELSE ev

\* A sync event is dispatched to the worker; the promises its handler awaits
\* are already resolved, so it runs to its end in one step.
SyncEvent(tag) ==
  /\ Len(requests) + Len(control) < MaxRequests
  /\ control' = Append(control, SyncListener(tag))
  /\ UNCHANGED << requests, cacheStorage, pendingPuts, cachesAvailable, worker, clsRequest, clsTag, pageVars >>

(* ---------------------------- specification ---------------------------- *)

Next ==
  \/ InstallEvent
  \/ \E answer \in PrecacheAnswers : InstallPrecache(answer)
  \/ ActivateEvent
  \/ \E cacheName \in worker.deleting : DeleteCache(cacheName)
  \/ ActivateClaim
  \/ \E request \in RequestShapes : FetchEvent(request)
  \/ \E i \in DOMAIN requests : CacheFirstMatch(i)
  \/ \E i \in DOMAIN requests : \E r \in NetworkResponses : CacheFirstResolve(i, r)
  \/ \E i \in DOMAIN requests : CacheFirstReject(i)
  \/ \E i \in DOMAIN requests : \E r \in NetworkResponses : NetworkFirstResolve(i, r)
  \/ \E i \in DOMAIN requests : NetworkFirstStore(i)
  \/ \E i \in DOMAIN requests : NetworkFirstReject(i)
  \/ \E i \in DOMAIN requests : NetworkFirstFallback(i)
  \/ \E i \in DOMAIN requests : getOfflineResponse(i)
  \/ \E i \in DOMAIN requests : StaleWhileRevalidateMatch(i)
  \/ \E i \in DOMAIN requests : \E r \in NetworkResponses : RevalidateResolve(i, r)
  \/ \E i \in DOMAIN requests : RevalidateReject(i)
  \/ \E p \in pendingPuts : CompletePut(p)
  \/ \E message \in MessageShapes : MessageEvent(message)
  \/ \E tag \in SyncTags : SyncEvent(tag)

Spec == Init /\ [][Next]_vars

(* -------------------------- classifier harness ------------------------- *)

PathPrefixes ==
  { "/", "/collections/", "/products/", "/pages/", "/blogs/", "/assets/", "/search/",
    "/shop/products/" }

PathStems == { "cart", "base", "summer", "suggest" }

PathSuffixes ==
  { "", ".css", ".js", ".png", ".jpg", ".jpeg", ".gif", ".webp", ".svg", ".woff",
    ".woff2", ".ttf", ".json", ".html" }

ClassifierInputs ==
  { Request("GET", SelfOrigin, prefix \o stem \o suffix) :
      prefix \in PathPrefixes, stem \in PathStems, suffix \in PathSuffixes }

InitClassify ==
  /\ requests = << >>
  /\ cacheStorage = [n \in {} |-> EmptyCache]
  /\ pendingPuts = {}
  /\ cachesAvailable = TRUE
  /\ worker = [NewWorker EXCEPT !.state = "activated"]
  /\ control = << >>
  /\ clsRequest \in ClassifierInputs
  /\ clsTag = "none"
  /\ InitPage

\* const strategy = determineCachingStrategy(request)
Classify ==
  /\ clsTag = "none"
  /\ clsTag' = determineCachingStrategy(clsRequest)
  /\ UNCHANGED << requests, cacheStorage, pendingPuts, clsRequest, cachesAvailable, worker, control, pageVars >>

NextClassify == Classify

SpecClassify == InitClassify /\ [][NextClassify]_vars

(* --------------------------- recently-viewed.js ------------------------ *)

maxProducts == 6

\* The products of the shop: one more than the list keeps.
ProductHandles == { "tee", "hoodie", "jeans", "cap", "scarf", "boots", "belt" }

\* The pages a visitor loads: every product page, a product reached through
\* a collection, a product page without a title, the bare /products/ path
\* and the home page.
Pages ==
  { Page("/products/" \o h, h \o " | Veyra Clothing", FALSE, h) : h \in ProductHandles }
    \cup { Page("/collections/summer/products/tee", "tee | Veyra Clothing", FALSE, "tee"),
           Page("/products/cap", "", FALSE, "cap"),
           Page("/products/", "Products | Veyra Clothing", FALSE, ""),
           HomePage }

RECURSIVE SplitFrom(_, _, _)
\* pathname.split('/'), from character i on, with the segment read so far
SplitFrom(s, i, segment) ==
  IF i > Len(s) THEN << segment >>
  ELSE IF SubSeq(s, i, i) = "/" THEN << segment >> \o SplitFrom(s, i + 1, "")
  ELSE SplitFrom(s, i + 1, segment \o SubSeq(s, i, i))

\* Array.prototype.indexOf, counting from 1; 0 when absent
IndexOf(arr, x) ==
  IF \E k \in 1..Len(arr) : arr[k] = x
    THEN CHOOSE k \in 1..Len(arr) : arr[k] = x /\ \A l \in 1..(k - 1) : arr[l] # x
    ELSE 0

\* String.prototype.replace(t, ''): the first occurrence of t is removed
Remove(s, t) ==
  IF ~Includes(s, t) THEN s
  ELSE LET at == CHOOSE i \in 0..Len(s) :
                   /\ i + Len(t) <= Len(s) /\ SubSeq(s, i + 1, i + Len(t)) = t
                   /\ \A l \in 0..(i - 1) : SubSeq(s, l + 1, l + Len(t)) # t
       IN  SubSeq(s, 1, at) \o SubSeq(s, at + Len(t) + 1, Len(s))

RECURSIVE Trim(_)
\* String.prototype.trim
Trim(s) ==
  IF Len(s) > 0 /\ SubSeq(s, 1, 1) = " " THEN Trim(SubSeq(s, 2, Len(s)))
  ELSE IF Len(s) > 0 /\ SubSeq(s, Len(s), Len(s)) = " " THEN Trim(SubSeq(s, 1, Len(s) - 1))
  ELSE s

\* null, as getProductHandle and getCurrentProductData return it
NoHandle == ""

NoProduct == [handle |-> NoHandle, title |-> "", url |-> ""]

\* getProductHandle(): the path segment after the first "products" segment
getProductHandle(pathname) ==
  LET pathParts == SplitFrom(pathname, 1, "")
      productIndex == IndexOf(pathParts, "products")
  IN  IF productIndex # 0 /\ productIndex + 1 <= Len(pathParts)
           /\ pathParts[productIndex + 1] # ""
        THEN pathParts[productIndex + 1]
        ELSE NoHandle

\* getCurrentProductData(): image and price are copied from meta tags and
\* take part in no decision; they are left out of the record.
getCurrentProductData(page) ==
  LET handle == getProductHandle(page.pathname)
  IN  IF page.title # "" /\ handle # NoHandle
        THEN [handle |-> handle, title |-> Trim(Remove(page.title, " | Veyra Clothing")),
              url |-> page.pathname]
        ELSE NoProduct

\* JSON.stringify of the list: each record as the values of its keys, in order
JSONstringify(products) ==
  [k \in 1..Len(products) |-> << products[k].handle, products[k].title, products[k].url >>]

\* JSON.parse of a stored list
JSONparse(text) ==
  [k \in 1..Len(text) |-> [handle |-> text[k][1], title |-> text[k][2], url |-> text[k][3]]]

\* A stored text that is no JSON: an entry that is not a (handle, title, url)
\* object stands for the place where the text breaks off.
Unparseable == [stored |-> TRUE, value |-> << << "{\"handle" >> >>]

\* JSON.parse(text) throws a SyntaxError
SyntaxError(text) == \E k \in 1..Len(text) : Len(text[k]) # 3

\* getRecentlyViewed(): stored ? JSON.parse(stored) : [], and [] from the
\* catch block when JSON.parse throws
getRecentlyViewed(storage) ==
  IF storage.stored /\ ~SyntaxError(storage.value) THEN JSONparse(storage.value) ELSE << >>

\* trackProductViews without the slice that keeps maxProducts entries.
trackProductViewsNoSlice(storage, page) ==
  IF ~Includes(page.pathname, "/products/") THEN storage
  ELSE LET productHandle == getProductHandle(page.pathname)
           Other(item) == item.handle # productHandle
           currentProduct == getCurrentProductData(page)
       IN  IF productHandle = NoHandle \/ currentProduct = NoProduct THEN storage
           ELSE [stored |-> TRUE,
                 value |-> JSONstringify(<< currentProduct >>
                                           \o SelectSeq(getRecentlyViewed(storage), Other))]

\* trackProductViews without the filter that removes the earlier entry.
trackProductViewsNoFilter(storage, page) ==
  IF ~Includes(page.pathname, "/products/") THEN storage
  ELSE LET productHandle == getProductHandle(page.pathname)
           currentProduct == getCurrentProductData(page)
           unshifted == << currentProduct >> \o getRecentlyViewed(storage)
       IN  IF productHandle = NoHandle \/ currentProduct = NoProduct THEN storage
           ELSE [stored |-> TRUE,
                 value |-> JSONstringify(IF Len(unshifted) > maxProducts
                                           THEN SubSeq(unshifted, 1, maxProducts)
                                           ELSE unshifted)]

\* trackProductViews with setItem outside the test of currentProduct: the
\* filtered list is saved even when the page carries no product data.
trackProductViewsSaveAlways(storage, page) ==
  IF ~Includes(page.pathname, "/products/") THEN storage
  ELSE LET productHandle == getProductHandle(page.pathname) IN
       IF productHandle = NoHandle THEN storage
       ELSE LET Other(item) == item.handle # productHandle
                recentlyViewed == SelectSeq(getRecentlyViewed(storage), Other)
                currentProduct == getCurrentProductData(page)
                unshifted == IF currentProduct = NoProduct THEN recentlyViewed
                             ELSE << currentProduct >> \o recentlyViewed
            IN  [stored |-> TRUE,
                 value |-> JSONstringify(IF Len(unshifted) > maxProducts
                                           THEN SubSeq(unshifted, 1, maxProducts)
                                           ELSE unshifted)]

\* trackProductViews(): the value under storageKey after the call
trackProductViews(storage, page) ==
  IF ~Includes(page.pathname, "/products/") THEN storage
  ELSE LET productHandle == getProductHandle(page.pathname) IN
       IF productHandle = NoHandle THEN storage
       ELSE LET Other(item) == item.handle # productHandle
                recentlyViewed == SelectSeq(getRecentlyViewed(storage), Other)
                currentProduct == getCurrentProductData(page)
                unshifted == << currentProduct >> \o recentlyViewed
            IN  IF currentProduct = NoProduct THEN storage
                ELSE [stored |-> TRUE,
                      value |-> JSONstringify(IF Len(unshifted) > maxProducts
                                                THEN SubSeq(unshifted, 1, maxProducts)
                                                ELSE unshifted)]

\* displayRecentlyViewed(): nothing without the grid element; the
\* placeholder for an empty list; else one card per stored product
displayRecentlyViewed(storage, page) ==
  LET recentlyViewed == getRecentlyViewed(storage) IN
  IF ~page.hasGrid THEN NoGrid
  ELSE IF Len(recentlyViewed) = 0 THEN [display |-> "none", cards |-> << >>]
  ELSE [display |-> "grid",
        cards |-> [k \in 1..Len(recentlyViewed) |-> recentlyViewed[k].url]]

\* The worker plays no part in the page-side scripts.
IdleWorker ==
  /\ requests = << >>
  /\ cacheStorage = [n \in {} |-> EmptyCache]
  /\ pendingPuts = {}
  /\ cachesAvailable = TRUE
  /\ worker = [NewWorker EXCEPT !.state = "activated"]
  /\ control = << >>
  /\ clsRequest = Request("GET", SelfOrigin, "/")
  /\ clsTag = "none"

InitRecentlyViewed == IdleWorker /\ InitPage

\* A page is loaded and RecentlyViewed.init() runs on it: trackProductViews,
\* then displayRecentlyViewed.  The history notes the product the page shows
\* when the page carries its data.
Visit(page) ==
  LET Other(h) == h # page.product IN
  /\ location' = page
  /\ localStorage' = trackProductViews(localStorage, page)
  /\ grid' = displayRecentlyViewed(localStorage', page)
  /\ recency' = IF page.product # "" /\ page.title # ""
                  THEN << page.product >> \o SelectSeq(recency, Other)
                  ELSE recency
  /\ UNCHANGED << requests, cacheStorage, pendingPuts, cachesAvailable, worker, control,
                  clsRequest, clsTag, acVars >>

NextRecentlyViewed == \E page \in Pages : Visit(page)

SpecRecentlyViewed == InitRecentlyViewed /\ [][NextRecentlyViewed]_vars

\* The first visit finds under storageKey nothing, or a text left there
\* that JSON.parse rejects.
InitStored ==
  /\ IdleWorker
  /\ InitAuto
  /\ localStorage \in { NoItem, Unparseable }
  /\ location = Page("", "", FALSE, "")
  /\ grid = NoGrid
  /\ recency = << >>

SpecStored == InitStored /\ [][NextRecentlyViewed]_vars

(* ------------------------- search-autocomplete.js ---------------------- *)

\* setTimeout(() => this.fetchSuggestions(query, input), 300)
DebounceDelay == 300

\* setTimeout(() => dropdown.style.display = 'none', 150)
HideDelay == 150

\* The clock is observed every HideDelay ms, MaxTicks times.
MaxTicks == 4

\* Input events in one behaviour.
MaxKeystrokes == 3

\* What a visitor leaves in a search input: nothing, a word, a word and a blank.
TypedValues == { "", "te", "tee " }

\* How a suggest.json request that is answered ends: products, no product,
\* or a status that is not ok.
SuggestResults == { "products", "empty", "notok" }

\* showDropdown(key): this.dropdowns.get(key), shown when it has content
showDropdown(drops, key) ==
  IF key \in DOMAIN drops /\ drops[key].innerHTML # ""
    THEN [drops EXCEPT ![key].display = "block", ![key].visible = TRUE]
    ELSE drops

\* hideDropdown(input): the class is removed now, display:none set HideDelay later
hideDropdown(input) ==
  /\ dropdowns' = [dropdowns EXCEPT ![input].visible = FALSE]
  /\ hideTimers' = hideTimers \cup {[input |-> input, due |-> now + HideDelay]}

\* dropdown.innerHTML = ...: the new content of a dropdown; its items are new
\* elements, none with aria-selected
Content(drops, input, innerHTML, query, items) ==
  [drops EXCEPT ![input].innerHTML = innerHTML, ![input].query = query,
                ![input].items = items, ![input].selected = {}]

\* handleInput without the clearTimeout of the timer set before.
HandleInputNoClear(input, value) ==
  LET query == Trim(value)
      timer == [input |-> input, query |-> query, due |-> now + DebounceDelay]
  IN  /\ typed < MaxKeystrokes
      /\ typed' = typed + 1
      /\ inputValue' = [inputValue EXCEPT ![input] = value]
      /\ lastInputAt' = [lastInputAt EXCEPT ![input] = now]
      /\ fetched' = [fetched EXCEPT ![input] = FALSE]
      /\ IF query = ""
           THEN /\ hideDropdown(input)
                /\ UNCHANGED << timers, debounceTimers >>
           ELSE /\ timers' = timers \cup {timer}
                /\ debounceTimers' = [debounceTimers EXCEPT ![input] = timer]
                /\ UNCHANGED << dropdowns, hideTimers >>
      /\ UNCHANGED << requests, cacheStorage, pendingPuts, cachesAvailable, worker, control,
                      clsRequest, clsTag, rvVars, now, isLoading, suggestFetches >>

\* handleInput with the clearTimeout moved below the test of the query: an
\* empty query leaves the timer set before in place.
HandleInputKeepTimer(input, value) ==
  LET query == Trim(value)
      cleared == timers \ {debounceTimers[input]}
      timer == [input |-> input, query |-> query, due |-> now + DebounceDelay]
  IN  /\ typed < MaxKeystrokes
      /\ typed' = typed + 1
      /\ inputValue' = [inputValue EXCEPT ![input] = value]
      /\ lastInputAt' = [lastInputAt EXCEPT ![input] = now]
      /\ fetched' = [fetched EXCEPT ![input] = FALSE]
      /\ IF query = ""
           THEN /\ hideDropdown(input)
                /\ UNCHANGED << timers, debounceTimers >>
           ELSE /\ timers' = cleared \cup {timer}
                /\ debounceTimers' = [debounceTimers EXCEPT ![input] = timer]
                /\ UNCHANGED << dropdowns, hideTimers >>
      /\ UNCHANGED << requests, cacheStorage, pendingPuts, cachesAvailable, worker, control,
                      clsRequest, clsTag, rvVars, now, isLoading, suggestFetches >>

\* handleInput(event, input): clear the timer set before for this input; an
\* empty query hides the dropdown; else a new timer is set and remembered
HandleInput(input, value) ==
  LET query == Trim(value)
      cleared == timers \ {debounceTimers[input]}
      timer == [input |-> input, query |-> query, due |-> now + DebounceDelay]
  IN  /\ typed < MaxKeystrokes
      /\ typed' = typed + 1
      /\ inputValue' = [inputValue EXCEPT ![input] = value]
      /\ lastInputAt' = [lastInputAt EXCEPT ![input] = now]
      /\ fetched' = [fetched EXCEPT ![input] = FALSE]
      /\ IF query = ""
           THEN /\ timers' = cleared
                /\ hideDropdown(input)
                /\ UNCHANGED debounceTimers
           ELSE /\ timers' = cleared \cup {timer}
                /\ debounceTimers' = [debounceTimers EXCEPT ![input] = timer]
                /\ UNCHANGED << dropdowns, hideTimers >>
      /\ UNCHANGED << requests, cacheStorage, pendingPuts, cachesAvailable, worker, control,
                      clsRequest, clsTag, rvVars, now, isLoading, suggestFetches >>

\* fetchSuggestions(query, input) up to its await fetch(...): nothing while
\* isLoading; else isLoading is set, the loading state shown, the fetch issued
fetchSuggestions(query, input) ==
  IF isLoading
    THEN UNCHANGED << isLoading, dropdowns, suggestFetches, fetched >>
    ELSE /\ isLoading' = TRUE
         /\ dropdowns' = showDropdown(Content(dropdowns, input, "loading", query, 0), input)
         /\ suggestFetches' = suggestFetches \cup {[input |-> input, query |-> query]}
         /\ fetched' = [fetched EXCEPT ![input] = TRUE]

\* The event loop runs the callbacks of the timers in the order in which
\* they fall due: no pending timer is due before this one.
Earliest(due) ==
  /\ \A timer \in timers : timer.due >= due
  /\ \A timer \in hideTimers : timer.due >= due

\* A debounce timer expires, not before it is due, and its callback runs.
DebounceTimerFires(timer) ==
  /\ timer \in timers
  /\ now >= timer.due
  /\ Earliest(timer.due)
  /\ timers' = timers \ {timer}
  /\ fetchSuggestions(timer.query, timer.input)
  /\ UNCHANGED << requests, cacheStorage, pendingPuts, cachesAvailable, worker, control,
                  clsRequest, clsTag, rvVars, now, inputValue, hideTimers, debounceTimers,
                  typed, lastInputAt >>

\* fetchSuggestions after its awaits (fetch, then response.json()): a status
\* that is not ok throws into the catch block; displayResults shows the
\* products, or showNoResults, which hands the dropdown itself to
\* showDropdown; finally isLoading is reset
SuggestResolve(fetch, result) ==
  /\ fetch \in suggestFetches
  /\ suggestFetches' = suggestFetches \ {fetch}
  /\ dropdowns' =
       IF result = "notok"
         THEN showDropdown(Content(dropdowns, fetch.input, "error", fetch.query, 0), fetch.input)
       ELSE IF result = "empty"
         THEN showDropdown(Content(dropdowns, fetch.input, "no-results", fetch.query, 0),
                           "search-dropdown")
       ELSE showDropdown(Content(dropdowns, fetch.input, "results", fetch.query, 2), fetch.input)
  /\ isLoading' = FALSE
  /\ UNCHANGED << requests, cacheStorage, pendingPuts, cachesAvailable, worker, control,
                  clsRequest, clsTag, rvVars, now, inputValue, timers, hideTimers,
                  debounceTimers, typed, lastInputAt, fetched >>

\* The fetch rejects, in a fetchSuggestions without its finally block.
SuggestRejectNoFinally(fetch) ==
  /\ fetch \in suggestFetches
  /\ suggestFetches' = suggestFetches \ {fetch}
  /\ dropdowns' =
       showDropdown(Content(dropdowns, fetch.input, "error", fetch.query, 0), fetch.input)
  /\ UNCHANGED << requests, cacheStorage, pendingPuts, cachesAvailable, worker, control,
                  clsRequest, clsTag, rvVars, now, inputValue, timers, hideTimers,
                  debounceTimers, typed, lastInputAt, fetched, isLoading >>

\* The fetch rejects: catch shows the error state, finally resets isLoading
SuggestReject(fetch) ==
  /\ fetch \in suggestFetches
  /\ suggestFetches' = suggestFetches \ {fetch}
  /\ dropdowns' =
       showDropdown(Content(dropdowns, fetch.input, "error", fetch.query, 0), fetch.input)
  /\ isLoading' = FALSE
  /\ UNCHANGED << requests, cacheStorage, pendingPuts, cachesAvailable, worker, control,
                  clsRequest, clsTag, rvVars, now, inputValue, timers, hideTimers,
                  debounceTimers, typed, lastInputAt, fetched >>

\* A timer of hideDropdown expires: dropdown.style.display = 'none'
HideTimerFires(timer) ==
  /\ timer \in hideTimers
  /\ now >= timer.due
  /\ Earliest(timer.due)
  /\ hideTimers' = hideTimers \ {timer}
  /\ dropdowns' = [dropdowns EXCEPT ![timer.input].display = "none"]
  /\ UNCHANGED << requests, cacheStorage, pendingPuts, cachesAvailable, worker, control,
                  clsRequest, clsTag, rvVars, now, inputValue, timers, debounceTimers,
                  isLoading, suggestFetches, typed, lastInputAt, fetched >>

\* Time passes; a timer may expire late, never early.
Tick ==
  /\ now < MaxTicks * HideDelay
  /\ now' = now + HideDelay
  /\ UNCHANGED << requests, cacheStorage, pendingPuts, cachesAvailable, worker, control,
                  clsRequest, clsTag, rvVars, inputValue, timers, hideTimers, debounceTimers,
                  isLoading, suggestFetches, dropdowns, typed, lastInputAt, fetched >>

InitAutocomplete == IdleWorker /\ InitPage

NextAutocomplete ==
  \/ \E input \in Inputs : \E value \in TypedValues : HandleInput(input, value)
  \/ \E timer \in timers : DebounceTimerFires(timer)
  \/ \E fetch \in suggestFetches : \E result \in SuggestResults : SuggestResolve(fetch, result)
  \/ \E fetch \in suggestFetches : SuggestReject(fetch)
  \/ \E timer \in hideTimers : HideTimerFires(timer)
  \/ Tick

SpecAutocomplete == InitAutocomplete /\ [][NextAutocomplete]_vars

\* A suggest.json fetch in flight settles, one way or the other.
SuggestSettles ==
  \E fetch \in suggestFetches :
    \/ \E result \in SuggestResults : SuggestResolve(fetch, result)
    \/ SuggestReject(fetch)

\* The browser's part: the clock advances, a timer that is due runs its
\* callback, the network answers or fails.  Nothing obliges the visitor to
\* type.
FairAutocomplete ==
  /\ WF_vars(Tick)
  /\ WF_vars(\E timer \in timers : DebounceTimerFires(timer))
  /\ WF_vars(\E timer \in hideTimers : HideTimerFires(timer))
  /\ WF_vars(SuggestSettles)

SpecAutocompleteLive == InitAutocomplete /\ [][NextAutocomplete]_vars /\ FairAutocomplete

(* --------------------------- handleKeydown ----------------------------- *)

\* resources[limit]=5: suggest.json answers with at most five products
SuggestLimit == 5

\* navigateDropdown(dropdown, 1) for ArrowDown, navigateDropdown(dropdown, -1)
\* for ArrowUp
Directions == { 1, -1 }

\* Array.prototype.findIndex over the items: the first item with
\* aria-selected "true", -1 when there is none
FindSelected(dropdown) ==
  IF dropdown.selected = {} THEN -1
  ELSE CHOOSE i \in dropdown.selected : \A j \in dropdown.selected : i <= j

\* navigateDropdown with (currentIndex + direction) % items.length: the
\* remainder of JavaScript is negative for ArrowUp on item 0 and matches no item.
navigateDropdownNoWrap(dropdown, direction) ==
  LET currentIndex == FindSelected(dropdown)
      newIndex == IF currentIndex = -1
                    THEN (IF direction > 0 THEN 0 ELSE dropdown.items - 1)
                    ELSE IF currentIndex + direction < 0 THEN -1
                    ELSE (currentIndex + direction) % dropdown.items
  IN  IF dropdown.items = 0 THEN dropdown
      ELSE [dropdown EXCEPT !.selected = { i \in 0..(dropdown.items - 1) : i = newIndex }]

\* navigateDropdown(dropdown, direction): nothing without items; else
\* aria-selected is "true" on the item of the new index and "false" on
\* every other item
navigateDropdown(dropdown, direction) ==
  LET currentIndex == FindSelected(dropdown)
      newIndex == IF currentIndex = -1
                    THEN (IF direction > 0 THEN 0 ELSE dropdown.items - 1)
                    ELSE (currentIndex + direction + dropdown.items) % dropdown.items
  IN  IF dropdown.items = 0 THEN dropdown
      ELSE [dropdown EXCEPT !.selected = { i \in 0..(dropdown.items - 1) : i = newIndex }]

\* handleKeydown(event, input) for the keys ArrowDown and ArrowUp
ArrowKey(input, direction) ==
  /\ dropdowns' = [dropdowns EXCEPT ![input] = navigateDropdown(dropdowns[input], direction)]
  /\ UNCHANGED << requests, cacheStorage, pendingPuts, cachesAvailable, worker, control,
                  clsRequest, clsTag, rvVars, now, inputValue, timers, hideTimers,
                  debounceTimers, isLoading, suggestFetches, typed, lastInputAt, fetched >>

\* A dropdown after the answer to the query "te" was rendered: n products,
\* or the no-results text in the dropdown the loading state had shown.
RenderedDropdown(n) ==
  [innerHTML |-> IF n = 0 THEN "no-results" ELSE "results", query |-> "te", items |-> n,
   visible |-> TRUE, display |-> "block", selected |-> {}]

\* Each input holds "te" and its dropdown the rendered answer.
InitNavigate ==
  /\ IdleWorker
  /\ InitRecent
  /\ now = 0
  /\ inputValue = [input \in Inputs |-> "te"]
  /\ timers = {}
  /\ hideTimers = {}
  /\ debounceTimers = [input \in Inputs |-> NoTimer]
  /\ isLoading = FALSE
  /\ suggestFetches = {}
  /\ dropdowns \in [Inputs -> { RenderedDropdown(n) : n \in 0..SuggestLimit }]
  /\ typed = 0
  /\ lastInputAt = [input \in Inputs |-> 0]
  /\ fetched = [input \in Inputs |-> TRUE]

NextNavigate == \E input \in Inputs : \E direction \in Directions : ArrowKey(input, direction)

SpecNavigate == InitNavigate /\ [][NextNavigate]_vars

(* ------------------------- classifier properties ----------------------- *)

\* The extensions and prefixes as the properties list them.
ListedExtensions ==
  { ".css", ".js", ".png", ".jpg", ".jpeg", ".gif", ".webp", ".svg", ".woff", ".woff2", ".ttf" }

ListedPrefixes == { "/collections/", "/products/", "/pages/", "/blogs/" }

EndsInExtension(path) == \E ext \in ListedExtensions : EndsWith(path, ext)

ContainsExtension(path) == \E ext \in ListedExtensions : Includes(path, ext)

HasHybridPrefix(path) == \E prefix \in ListedPrefixes : StartsWith(path, prefix)

Classified == clsTag # "none"

\* C1: a request whose path ends in a static extension is tagged cache-first.
C1_StaticExtensionIsCacheFirst ==
  (Classified /\ EndsInExtension(clsRequest.url.path)) => clsTag = "cache-first"

C1_Witness ==
  /\ Classified
  /\ EndsWith(clsRequest.url.path, ".woff2")
  /\ ~HasHybridPrefix(clsRequest.url.path)
  /\ clsTag = "cache-first"

\* C2 as stated: a request whose path starts with a hybrid route prefix is
\* tagged stale-while-revalidate.
C2_HybridPrefixIsStaleWhileRevalidate ==
  (Classified /\ HasHybridPrefix(clsRequest.url.path)) => clsTag = "stale-while-revalidate"

\* C2 amended: a request whose path starts with a hybrid route prefix and
\* contains no static extension is tagged stale-while-revalidate; with a
\* static extension in the path it is tagged cache-first.
C2_HybridPrefixWithoutExtension ==
  (Classified /\ HasHybridPrefix(clsRequest.url.path)) =>
     clsTag = IF ContainsExtension(clsRequest.url.path)
                THEN "cache-first" ELSE "stale-while-revalidate"

C2_Witness ==
  /\ Classified
  /\ clsRequest.url.path = "/collections/summer"
  /\ clsTag = "stale-while-revalidate"

\* C3: a request whose path neither ends in a static extension nor starts
\* with a hybrid route prefix is tagged network-first (search, cart, checkout,
\* /search/suggest.json included).
C3_UnmatchedIsNetworkFirst ==
  (Classified /\ ~EndsInExtension(clsRequest.url.path)
              /\ ~HasHybridPrefix(clsRequest.url.path)) => clsTag = "network-first"

\* C4: /assets/base.css is cache-first, /collections/summer is
\* stale-while-revalidate, /cart.js is network-first.
C4_Examples ==
  Classified =>
    /\ clsRequest.url.path = "/assets/base.css" => clsTag = "cache-first"
    /\ clsRequest.url.path = "/collections/summer" => clsTag = "stale-while-revalidate"
    /\ clsRequest.url.path = "/cart.js" => clsTag = "network-first"


(* ------------------------ fetch handling properties -------------------- *)

Intercepted(ev) == ev.pc # "passthrough"

Resolved(ev) == ev.pc = "done"

StaticPartition(storage) ==
  IF STATIC_CACHE \in DOMAIN storage THEN storage[STATIC_CACHE] ELSE EmptyCache

DynamicPartition(storage) ==
  IF DYNAMIC_CACHE \in DOMAIN storage THEN storage[DYNAMIC_CACHE] ELSE EmptyCache

\* The step is the fetch listener handling a new event.
EventStep == Len(requests') = Len(requests) + 1

\* C5: the tag depends on the URL alone (two events with the same URL carry
\* the same tag, whatever the caches held and whatever was handled between
\* them), and the step that classifies an event changes no partition, issues
\* no cache write, and leaves every earlier event as it was.
C5_TagIsFunctionOfUrl ==
  /\ [](\A i, j \in DOMAIN requests :
          (requests[i].url = requests[j].url /\ Intercepted(requests[i])
                                             /\ Intercepted(requests[j]))
            => requests[i].strategy = requests[j].strategy)
  /\ [][EventStep =>
          /\ cacheStorage' = cacheStorage
          /\ pendingPuts' = pendingPuts
          /\ SubSeq(requests', 1, Len(requests)) = requests
          /\ requests'[Len(requests')].strategy \in
               {"cache-first", "stale-while-revalidate"}
                 => requests'[Len(requests')].fetches = 0]_vars

\* The same URL was classified twice, the second time with its entry cached.
C5_Witness ==
  \E i, j \in DOMAIN requests :
    /\ i < j
    /\ requests[i].url = requests[j].url
    /\ requests[i].strategy = "network-first"
    /\ requests[j].strategy = "network-first"
    /\ requests[j].net = "rejected"
    /\ requests[j].outcome = "cached"

\* C6: an event is intercepted only if its method is GET and its origin is
\* the worker's own origin; any other event passes through: no executor
\* runs for it, it issues no fetch and reads no partition.
C6_InterceptsOnlySameOriginGet ==
  \A i \in DOMAIN requests :
    LET ev == requests[i] IN
    (ev.method # "GET" \/ ev.url.origin # SelfOrigin) =>
       /\ ~Intercepted(ev)
       /\ ev.strategy = "none"
       /\ ev.outcome = "default"
       /\ ev.fetches = 0
       /\ ~ev.readDynamic

\* The step resolves event i of cacheFirst from the static partition.
CacheFirstHitStep(i) ==
  /\ requests[i].pc = "cf_match"
  /\ requests[i].url \in DOMAIN StaticPartition(cacheStorage)

\* C7: when the cacheFirst lookup finds the URL in the static partition, the
\* event resolves in that step with the cached response, no fetch is ever
\* issued for it, and the static partition is unchanged.
C7_CacheFirstHitNoFetch ==
  /\ [][\A i \in DOMAIN requests :
          (CacheFirstHitStep(i) /\ requests'[i] # requests[i]) =>
             /\ requests'[i].pc = "done"
             /\ requests'[i].outcome = "cached"
             /\ requests'[i].response = StaticPartition(cacheStorage)[requests[i].url]
             /\ requests'[i].fetches = 0
             /\ cacheStorage' = cacheStorage
             /\ pendingPuts' = pendingPuts]_vars
  /\ [](\A i \in DOMAIN requests :
          (requests[i].strategy = "cache-first" /\ requests[i].hit)
            => (requests[i].fetches = 0 /\ requests[i].net = "none"))

C7_Witness ==
  \E i \in DOMAIN requests :
    /\ requests[i].strategy = "cache-first"
    /\ requests[i].hit
    /\ requests[i].outcome = "cached"
    /\ requests[i].response.src = "network"

\* C8: when a cacheFirst event that missed resolves with an ok network
\* response, a lookup of its URL in the static partition hits.
C8_CacheFirstStoresBeforeReturn ==
  \A i \in DOMAIN requests :
    LET ev == requests[i] IN
    (ev.strategy = "cache-first" /\ Resolved(ev) /\ ev.net = "ok")
      => ev.url \in DOMAIN StaticPartition(cacheStorage)

\* The step is the rejection of the fetch of cacheFirst event i.
CacheFirstRejectStep(i) ==
  /\ requests[i].pc = "cf_fetch"
  /\ requests'[i].net = "rejected"

\* C9: when the fetch of a cacheFirst miss rejects, the event rejects: it
\* gets no response, neither a dynamic-partition entry nor the offline
\* document, and the step changes no partition and issues no cache write.
C9_CacheFirstPropagatesFailure ==
  /\ [](\A i \in DOMAIN requests :
          (requests[i].strategy = "cache-first" /\ requests[i].net = "rejected") =>
             /\ Resolved(requests[i])
             /\ requests[i].outcome = "rejected"
             /\ requests[i].response = NoResponse
             /\ ~requests[i].readDynamic)
  /\ [][\A i \in DOMAIN requests :
          CacheFirstRejectStep(i) =>
            (cacheStorage' = cacheStorage /\ pendingPuts' = pendingPuts)]_vars

C9_Witness ==
  \E i \in DOMAIN requests :
    /\ requests[i].strategy = "cache-first"
    /\ requests[i].net = "rejected"
    /\ requests[i].outcome = "rejected"

\* C10 as stated: no intercepted event ends in a rejection.
C10_NoInterceptedRequestRejects ==
  \A i \in DOMAIN requests :
    Intercepted(requests[i]) => requests[i].outcome # "rejected"

\* C10 amended: an intercepted event that has resolved carries a response
\* (network, cached or offline document), except a cacheFirst event that
\* missed and whose fetch rejected, which rejects; networkFirst and
\* staleWhileRevalidate events never reject.
C10_OnlyCacheFirstMissRejects ==
  \A i \in DOMAIN requests :
    LET ev == requests[i] IN
    (Intercepted(ev) /\ Resolved(ev)) =>
      IF ev.strategy = "cache-first" /\ ~ev.hit /\ ev.net = "rejected"
        THEN ev.outcome = "rejected"
        ELSE /\ ev.outcome \in {"network", "cached", "offline"}
             /\ ev.response # NoResponse

\* A networkFirst event whose fetch rejected resolved with the offline document.
C10_Witness ==
  \E i \in DOMAIN requests :
    /\ requests[i].strategy = "network-first"
    /\ requests[i].net = "rejected"
    /\ Resolved(requests[i])
    /\ requests[i].response = OfflineDocument


(* ------------------- networkFirst / staleWhileRevalidate --------------- *)

\* A cache.put of this response under this URL is in flight or has left an entry.
PutIssued(name, url) ==
  \/ \E p \in pendingPuts : p.cache = name /\ p.url = url
  \/ Hit(cacheStorage, name, url)

\* C11: a networkFirst event issues its fetch before any cache lookup; when
\* the fetch resolves ok, a cache.put of that response under the request URL
\* is issued on the dynamic partition and the event resolves with the live
\* network response.
C11_NetworkFirstStoresAndReturnsLive ==
  /\ [](\A i \in DOMAIN requests :
          LET ev == requests[i] IN
          ev.strategy = "network-first" =>
            /\ ev.fetches = 1
            /\ ev.pc = "nf_fetch" => ~ev.readDynamic
            /\ ev.net = "ok" => ~ev.readDynamic
            /\ (ev.net = "ok" /\ Resolved(ev)) =>
                 /\ ev.outcome = "network"
                 /\ ev.response.src = "network" /\ ev.response.ok
                 /\ PutIssued(DYNAMIC_CACHE, ev.url))
  /\ [][\A i \in DOMAIN requests :
          (requests[i].pc = "nf_open" /\ requests'[i].pc = "done") =>
             /\ Put(DYNAMIC_CACHE, requests[i].url, requests'[i].response) \in pendingPuts'
             /\ requests'[i].response = requests[i].response
             /\ StaticPartition(cacheStorage') = StaticPartition(cacheStorage)]_vars

C11_Witness ==
  \E i \in DOMAIN requests :
    /\ requests[i].strategy = "network-first"
    /\ requests[i].net = "ok"
    /\ Resolved(requests[i])
    /\ Hit(cacheStorage, DYNAMIC_CACHE, requests[i].url)
    /\ cacheStorage[DYNAMIC_CACHE][requests[i].url] = requests[i].response

\* The step is the catch-block lookup of event i, and it finds an entry.
FallbackHitStep(i) ==
  /\ requests[i].pc = "nf_fallback"
  /\ requests'[i] # requests[i]
  /\ requests[i].url \in DOMAIN DynamicPartition(cacheStorage)

\* The step is the catch-block lookup of event i, and it finds nothing.
FallbackMissStep(i) ==
  /\ requests[i].pc = "nf_fallback"
  /\ requests'[i] # requests[i]
  /\ requests[i].url \notin DOMAIN DynamicPartition(cacheStorage)

\* C12: when the fetch of networkFirst rejected and the dynamic partition
\* holds an entry for the URL, the event resolves with that entry and the
\* dynamic partition is unchanged.
C12_NetworkFirstFallsBackToCache ==
  [][\A i \in DOMAIN requests :
       FallbackHitStep(i) =>
         /\ requests[i].net = "rejected"
         /\ requests'[i].pc = "done"
         /\ requests'[i].outcome = "cached"
         /\ requests'[i].response = DynamicPartition(cacheStorage)[requests[i].url]
         /\ cacheStorage' = cacheStorage
         /\ pendingPuts' = pendingPuts]_vars

C12_Witness ==
  \E i \in DOMAIN requests :
    /\ requests[i].strategy = "network-first"
    /\ requests[i].net = "rejected"
    /\ requests[i].outcome = "cached"
    /\ requests[i].response.src = "network"

\* C13: when the fetch of networkFirst rejected and the dynamic partition
\* has no entry for the URL, the event resolves with the synthesized offline
\* document, whose body contains "You're Offline", whatever the partitions
\* hold; the document is never written to a partition.
C13_NetworkFirstOfflineDocument ==
  /\ [](\A i \in DOMAIN requests :
          LET ev == requests[i] IN
          /\ ev.pc = "nf_offline" => (ev.net = "rejected" /\ ev.readDynamic)
          /\ ev.outcome = "offline" =>
               /\ ev.response = OfflineDocument
               /\ Includes(BodyText(ev.response), "You're Offline")
               /\ ev.net = "rejected")
  /\ [](\A p \in pendingPuts : p.response # OfflineDocument)
  /\ [](\A n \in DOMAIN cacheStorage : \A u \in DOMAIN cacheStorage[n] :
          cacheStorage[n][u] # OfflineDocument)
  /\ [][\A i \in DOMAIN requests :
          /\ FallbackMissStep(i) => requests'[i].pc = "nf_offline"
          /\ (requests[i].pc = "nf_offline" /\ requests'[i] # requests[i]) =>
               /\ requests'[i].pc = "done"
               /\ requests'[i].outcome = "offline"
               /\ pendingPuts' = pendingPuts
               /\ \A n \in DOMAIN cacheStorage : cacheStorage'[n] = cacheStorage[n]]_vars

\* The offline document was served while both partitions held entries.
C13_Witness ==
  \E i \in DOMAIN requests :
    /\ requests[i].outcome = "offline"
    /\ requests[i].response = OfflineDocument
    /\ \E u \in DOMAIN DynamicPartition(cacheStorage) : u # requests[i].url

\* C14 as stated: a networkFirst event never resolves with a non-ok network
\* response (it gets the cached entry or the offline document instead).
C14_NonOkNeverReachesPage ==
  \A i \in DOMAIN requests :
    LET ev == requests[i] IN
    (ev.strategy = "network-first" /\ Resolved(ev)) =>
       ~(ev.response.src = "network" /\ ~ev.response.ok)

\* C14 amended: only a rejected fetch is a failure for networkFirst; a
\* non-ok network response is returned to the page as it is, without any
\* cache lookup, and nothing is stored for it.
C14_NonOkIsReturnedAsIs ==
  /\ [](\A i \in DOMAIN requests :
          LET ev == requests[i] IN
          (ev.strategy = "network-first" /\ ev.net = "notok") =>
             /\ Resolved(ev)
             /\ ev.outcome = "network"
             /\ ev.response.src = "network" /\ ~ev.response.ok
             /\ ~ev.readDynamic)
  /\ [][\A i \in DOMAIN requests :
          (requests[i].pc = "nf_fetch" /\ requests'[i].net = "notok") =>
             (cacheStorage' = cacheStorage /\ pendingPuts' = pendingPuts)]_vars

C14_Witness ==
  \E i \in DOMAIN requests :
    /\ requests[i].strategy = "network-first"
    /\ requests[i].net = "notok"
    /\ Resolved(requests[i])
    /\ ~requests[i].response.ok

\* The step is the lookup of staleWhileRevalidate event i, and it hits.
RevalidateHitStep(i) ==
  /\ requests[i].pc = "swr_match"
  /\ requests'[i] # requests[i]
  /\ requests[i].url \in DOMAIN DynamicPartition(cacheStorage)

\* C15: on a dynamic-partition hit staleWhileRevalidate resolves in the
\* lookup step with the cached response while its background fetch is still
\* pending, and the response it resolved with never changes afterwards,
\* however that fetch settles.
C15_StaleServedWithoutWaiting ==
  /\ [][\A i \in DOMAIN requests :
          /\ RevalidateHitStep(i) =>
               /\ requests'[i].pc = "done"
               /\ requests'[i].outcome = "cached"
               /\ requests'[i].response = DynamicPartition(cacheStorage)[requests[i].url]
               /\ requests'[i].bg = "pending"
               /\ requests'[i].net = "none"
          /\ Resolved(requests[i]) =>
               /\ requests'[i].pc = "done"
               /\ requests'[i].outcome = requests[i].outcome
               /\ requests'[i].response = requests[i].response]_vars
  /\ [](\A i \in DOMAIN requests :
          (requests[i].strategy = "stale-while-revalidate" /\ requests[i].hit) =>
             (Resolved(requests[i]) /\ requests[i].net = "none"))

C15_Witness ==
  \E i \in DOMAIN requests :
    /\ requests[i].strategy = "stale-while-revalidate"
    /\ requests[i].hit
    /\ Resolved(requests[i])
    /\ requests[i].bg = "pending"

C17_BackgroundFailureDropped ==
  /\ [][\A i \in DOMAIN requests :
          /\ (requests[i].bg = "pending" /\ requests'[i].bg \in {"rejected", "notok"}) =>
               /\ cacheStorage' = cacheStorage
               /\ pendingPuts' = pendingPuts
          /\ requests[i].bg \in {"rejected", "notok"} => requests'[i] = requests[i]]_vars
  /\ [](\A i \in DOMAIN requests :
          requests[i].bg \in {"rejected", "notok"} =>
             /\ Resolved(requests[i])
             /\ requests[i].outcome = "cached"
             /\ requests[i].fetches = 1
             /\ requests[i].url \in DOMAIN DynamicPartition(cacheStorage))

C17_Witness ==
  \E i \in DOMAIN requests :
    /\ requests[i].bg = "rejected"
    /\ requests[i].outcome = "cached"
    /\ DynamicPartition(cacheStorage)[requests[i].url] = requests[i].response

\* How networkFirst ends for an event, given how its fetch settled.
NetworkFirstOutcome(ev) ==
  /\ ev.net = "ok" =>
       /\ ev.outcome = "network" /\ ev.response.src = "network" /\ ev.response.ok
       /\ PutIssued(DYNAMIC_CACHE, ev.url)
  /\ ev.net = "notok" =>
       ev.outcome = "network" /\ ev.response.src = "network" /\ ~ev.response.ok
  /\ ev.net = "rejected" => ev.outcome \in {"cached", "offline"}
  /\ ev.net \in {"ok", "notok", "rejected"}
  /\ ev.fetches = 1

\* C18: on a dynamic-partition miss staleWhileRevalidate continues exactly as
\* networkFirst does for the same request: the miss leaves the event where
\* the listener leaves a networkFirst event (fetch issued, nothing stored),
\* and it ends as a networkFirst event ends for the same network outcome.
C18_MissDelegatesToNetworkFirst ==
  /\ [][\A i \in DOMAIN requests :
          (requests[i].pc = "swr_match" /\ requests'[i] # requests[i]
             /\ requests[i].url \notin DOMAIN DynamicPartition(cacheStorage)) =>
            /\ requests'[i] =
                 [Dispatch(NewEvent([method |-> requests[i].method, url |-> requests[i].url]),
                           CACHE_STRATEGIES.DYNAMIC)
                    EXCEPT !.strategy = "stale-while-revalidate", !.readDynamic = TRUE]
            /\ DynamicPartition(cacheStorage') = DynamicPartition(cacheStorage)
            /\ StaticPartition(cacheStorage') = StaticPartition(cacheStorage)
            /\ pendingPuts' = pendingPuts]_vars
  /\ [](\A i \in DOMAIN requests :
          LET ev == requests[i] IN
          /\ (ev.strategy = "stale-while-revalidate" /\ ~ev.hit /\ Resolved(ev))
               => NetworkFirstOutcome(ev)
          /\ (ev.strategy = "network-first" /\ Resolved(ev)) => NetworkFirstOutcome(ev))

C18_Witness ==
  \E i, j \in DOMAIN requests :
    /\ requests[i].strategy = "stale-while-revalidate"
    /\ ~requests[i].hit
    /\ requests[j].strategy = "network-first"
    /\ Resolved(requests[i]) /\ Resolved(requests[j])
    /\ requests[i].net = "rejected" /\ requests[j].net = "rejected"
    /\ requests[i].response = requests[j].response

(* ------------------------------- lifecycle ----------------------------- *)

Installed == worker.state \in {"installed", "activating", "activated"}

\* C19: once the install event has ended, skipWaiting has been invoked,
\* whether the pre-cache succeeded or failed, and the install promise was
\* fulfilled, never rejected.
C19_InstallAlwaysSkipsWaiting ==
  Installed => (worker.skipWaiting /\ worker.install = "fulfilled")

CurrentPartitions == { STATIC_CACHE, DYNAMIC_CACHE }

\* The step belongs to the activate handler.
ActivateStep == worker.state \in {"installed", "activating"} /\ worker' # worker

MessageStep ==
  Len(control') = Len(control) + 1 /\ control'[Len(control')].kind = "message"

\* The step is the sync listener handling a new event.
SyncStep ==
  Len(control') = Len(control) + 1 /\ control'[Len(control')].kind = "sync"

\* C21: a GET_CACHE_INFO message with a port gets exactly one reply on it,
\* carrying the two current partition names, the length of the static asset
\* list and the strategy map, whatever the partitions hold; a SKIP_WAITING
\* message calls skipWaiting and gets no reply; the step that handles a
\* message changes no partition and issues no cache write.
C21_MessageHandler ==
  /\ [](\A k \in DOMAIN control :
          LET ev == control[k] IN
          ev.kind = "message" =>
            /\ (ev.type = "GET_CACHE_INFO" /\ ev.ports > 0) =>
                 /\ Len(ev.replies) = 1
                 /\ ev.replies[1].cacheNames = << "veyra-static-v1.0.0", "veyra-dynamic-v1.0.0" >>
                 /\ ev.replies[1].staticAssets = Len(STATIC_ASSETS)
                 /\ ev.replies[1].strategies = CACHE_STRATEGIES
                 /\ ~ev.skipWaiting /\ ~ev.threw
            /\ ev.type = "SKIP_WAITING" =>
                 /\ ev.skipWaiting /\ worker.skipWaiting
                 /\ ev.replies = << >> /\ ~ev.threw)
  /\ [][MessageStep =>
          /\ cacheStorage' = cacheStorage
          /\ pendingPuts' = pendingPuts
          /\ requests' = requests]_vars

\* The query was answered while the static partition held another number of
\* entries than the list has, and a skip-waiting command was obeyed.
C21_Witness ==
  /\ worker.state = "activated"
  /\ cachesAvailable
  /\ Cardinality(DOMAIN StaticPartition(cacheStorage)) # Len(STATIC_ASSETS)
  /\ \E k \in DOMAIN control :
       control[k].type = "GET_CACHE_INFO" /\ Len(control[k].replies) = 1
  /\ \E k \in DOMAIN control :
       control[k].type = "SKIP_WAITING" /\ worker.skipWaiting /\ worker.precache = "failed"

\* C22: the list of pending actions is empty whenever background sync reads
\* it, so no sync event, whatever its tag, leads to a performAction or a
\* removePendingAction call, and the step that handles a sync event changes
\* no partition and issues no cache write.
C22_BackgroundSyncInert ==
  /\ [](\A k \in DOMAIN control :
          LET ev == control[k] IN
          ev.kind = "sync" =>
            /\ ev.pending = << >>
            /\ ev.performed = 0 /\ ev.removed = 0
            /\ ev.ran = (ev.type = "background-sync"))
  /\ [][SyncStep =>
          /\ cacheStorage' = cacheStorage
          /\ pendingPuts' = pendingPuts
          /\ requests' = requests
          /\ worker' = worker]_vars

\* Background sync ran while the partitions held entries; a sync event with
\* another tag was ignored.
C22_Witness ==
  /\ worker.state = "activated"
  /\ StaticPartition(cacheStorage) # EmptyCache
  /\ \E k \in DOMAIN control :
       control[k].kind = "sync" /\ control[k].ran /\ control[k].performed = 0
  /\ \E k \in DOMAIN control : control[k].kind = "sync" /\ ~control[k].ran

\* C23: without the Cache API no fetch event is intercepted (no executor
\* runs, no fetch is issued by the worker, the default applies), no cache
\* operation ever happens, the install handler ends at once with skipWaiting
\* called, and the activate handler ends at once with the clients claimed.
C23_NoCacheApi ==
  ~cachesAvailable =>
    /\ \A i \in DOMAIN requests :
         /\ ~Intercepted(requests[i])
         /\ requests[i].strategy = "none"
         /\ requests[i].outcome = "default"
         /\ requests[i].fetches = 0
    /\ DOMAIN cacheStorage = {}
    /\ pendingPuts = {}
    /\ worker.state \in {"parsed", "installed", "activated"}
    /\ worker.state # "parsed" =>
         (worker.skipWaiting /\ worker.install = "fulfilled" /\ worker.precache = "none")
    /\ worker.state = "activated" => worker.claimed
    /\ worker.deleting = {}

\* Without the Cache API the worker is active and a same-origin GET passed through.
C23_Witness ==
  /\ ~cachesAvailable
  /\ worker.state = "activated" /\ worker.claimed /\ worker.skipWaiting
  /\ \E i \in DOMAIN requests :
       /\ requests[i].method = "GET" /\ requests[i].url.origin = SelfOrigin
       /\ requests[i].outcome = "default"

\* C29: clients.claim is called only when every caches.delete issued by the
\* activate handler has completed, and whenever the clients are claimed no
\* partition that activation found under a non-current name exists.
C29_ClaimAfterDeletions ==
  /\ [][(worker'.claimed /\ ~worker.claimed) =>
          /\ worker.deleting = {}
          /\ DOMAIN cacheStorage \cap StalePartitions = {}
          /\ cacheStorage' = cacheStorage]_vars
  /\ [](worker.claimed =>
          (worker.deleting = {} /\ DOMAIN cacheStorage \cap StalePartitions = {}))

\* The clients were claimed after both stale partitions were deleted; the
\* static partition, opened by a failed pre-cache, is kept.
C29_Witness ==
  /\ cachesAvailable
  /\ worker.claimed
  /\ worker.precache = "failed"
  /\ DOMAIN cacheStorage = {STATIC_CACHE}

(* ------------------------- concurrency and storage --------------------- *)

\* Some step of the handler of event i can be taken now.
CanStep(i) ==
  \/ ENABLED CacheFirstMatch(i)
  \/ ENABLED CacheFirstReject(i)
  \/ ENABLED NetworkFirstReject(i)
  \/ ENABLED NetworkFirstStore(i)
  \/ ENABLED NetworkFirstFallback(i)
  \/ ENABLED getOfflineResponse(i)
  \/ ENABLED StaleWhileRevalidateMatch(i)

\* Every way its fetch can settle is open to event i now.
CanSettle(i) ==
  /\ ENABLED CacheFirstReject(i) \/ ENABLED NetworkFirstReject(i)
  /\ \A r \in NetworkResponses :
       ENABLED CacheFirstResolve(i, r) \/ ENABLED NetworkFirstResolve(i, r)

\* The events whose own fetch of url answered ok and that have resolved:
\* each issued a cache.put of its response.
Writers(url) ==
  { k \in DOMAIN requests :
      requests[k].url = url /\ requests[k].net = "ok" /\ Resolved(requests[k]) }

\* No write for url is in flight and no background update wrote it.
Quiet(url) ==
  /\ \A p \in pendingPuts : p.url # url
  /\ \A k \in DOMAIN requests : requests[k].url = url => requests[k].bg # "ok"

\* Events i and j are two handlers of the same URL that both went to the network.
Racing(i, j) ==
  /\ i # j
  /\ requests[i].url = requests[j].url
  /\ Intercepted(requests[i]) /\ Intercepted(requests[j])
  /\ ~requests[i].hit /\ ~requests[j].hit

\* C24: events for the same URL are handled without locking: each one that
\* is not resolved can take its next step whatever the other did, a step of
\* one leaves the other as it was, and each resolves with the response of
\* its own fetch.  Once the worker is active an entry changes only in the
\* step that completes a cache.put for it, and then it is that put's
\* response: with no write in flight the entry of the URL is the response
\* of the write that completed last.
C24_LastWriteWins ==
  /\ [](\A i, j \in DOMAIN requests :
          Racing(i, j) =>
            /\ ~Resolved(requests[i]) => CanStep(i) \/ CanSettle(i)
            /\ (Resolved(requests[i]) /\ requests[i].net \in {"ok", "notok"}) =>
                 (requests[i].outcome = "network" /\ requests[i].response.src = "network")
            /\ ({i, j} \subseteq Writers(requests[i].url) /\ Quiet(requests[i].url)) =>
                 \E n \in CurrentPartitions :
                   /\ Hit(cacheStorage, n, requests[i].url)
                   /\ \E k \in Writers(requests[i].url) :
                        cacheStorage[n][requests[i].url] = requests[k].response)
  /\ [][/\ \A i, j \in DOMAIN requests :
            (i # j /\ requests'[i] # requests[i]) => requests'[j] = requests[j]
        /\ \A p \in pendingPuts \ pendingPuts' :
            /\ Hit(cacheStorage', p.cache, p.url)
            /\ cacheStorage'[p.cache][p.url] = p.response
            /\ \A u \in DOMAIN cacheStorage'[p.cache] \ {p.url} :
                 Hit(cacheStorage, p.cache, u)
                   /\ cacheStorage'[p.cache][u] = cacheStorage[p.cache][u]
        /\ worker.state = "activated" =>
            \A n \in DOMAIN cacheStorage' : \A u \in DOMAIN cacheStorage'[n] :
              (~Hit(cacheStorage, n, u) \/ cacheStorage'[n][u] # cacheStorage[n][u]) =>
                 \E p \in pendingPuts \ pendingPuts' : p.cache = n /\ p.url = u]_vars

\* Two cacheFirst events for one URL both missed and both stored; the write
\* of the earlier event completed last and its response is the entry.
C24_Witness ==
  \E i, j \in DOMAIN requests :
    /\ i < j
    /\ Racing(i, j)
    /\ requests[i].strategy = "cache-first"
    /\ requests[i].net = "ok" /\ requests[j].net = "ok"
    /\ requests[i].response # requests[j].response
    /\ pendingPuts = {}
    /\ StaticPartition(cacheStorage)[requests[i].url] = requests[i].response

\* C25: no step removes an entry from a partition that still exists after
\* it (entries are only added or overwritten), and a partition disappears
\* only while the activate handler runs, and only under a non-current name.
C25_NoEviction ==
  [][\A n \in DOMAIN cacheStorage :
       IF n \in DOMAIN cacheStorage'
         THEN DOMAIN cacheStorage[n] \subseteq DOMAIN cacheStorage'[n]
         ELSE /\ n \notin CurrentPartitions
              /\ worker.state = "activating"
              /\ n \in worker.deleting]_vars

\* After the pre-cache, a cacheFirst store and a control event, every
\* manifest asset still has its entry next to the new one.
C25_Witness ==
  /\ worker.state = "activated"
  /\ Len(control) > 0
  /\ pendingPuts = {}
  /\ \A k \in 1..Len(STATIC_ASSETS) :
       Hit(cacheStorage, STATIC_CACHE, Url(SelfOrigin, STATIC_ASSETS[k]))
  /\ Cardinality(DOMAIN StaticPartition(cacheStorage)) > Len(STATIC_ASSETS)

\* C26: an event that went to the network is resolved only after its fetch
\* settled; while the fetch is pending the only steps that change the event
\* are the ones that settle the fetch (nothing times out or cancels), so it
\* stays pending as long as the fetch does; and every other event that is
\* not resolved can still take its next step.
C26_NoTimeout ==
  /\ [](\A i \in DOMAIN requests :
          LET ev == requests[i] IN
          /\ ev.net = "pending" =>
               (ev.pc \in {"cf_fetch", "nf_fetch"} /\ ev.response = NoResponse)
          /\ (Intercepted(ev) /\ Resolved(ev) /\ ~ev.hit) =>
               ev.net \in {"ok", "notok", "rejected"}
          /\ \A j \in DOMAIN requests :
               (j # i /\ ev.net = "pending" /\ Intercepted(requests[j])
                  /\ ~Resolved(requests[j])) => CanStep(j) \/ CanSettle(j))
  /\ [][\A i \in DOMAIN requests :
          (requests[i].net = "pending" /\ requests'[i] # requests[i]) =>
             requests'[i].net \in {"ok", "notok", "rejected"}]_vars

\* An event still waits for its fetch while a later one has already resolved.
C26_Witness ==
  \E i, j \in DOMAIN requests :
    /\ i < j
    /\ requests[i].net = "pending"
    /\ requests[i].strategy = "stale-while-revalidate"
    /\ Resolved(requests[j]) /\ requests[j].net = "ok"

(* --------------------------- recently viewed --------------------------- *)

\* The list a reader of localStorage finds.
StoredList == IF localStorage.stored THEN localStorage.value ELSE << >>

\* C27: the list stored under veyra_recently_viewed never has more than
\* six entries.
C27_ListBounded == Len(StoredList) <= 6

\* All seven products were viewed and the list holds six of them.
C27_Witness ==
  /\ Len(recency) = 7
  /\ Len(StoredList) = 6

\* The handles of the stored entries, in list order.
StoredHandles == [k \in 1..Len(StoredList) |-> StoredList[k][1]]

\* The step loads a product page that carries product data.
TrackedVisit == location'.product # "" /\ location'.title # ""

\* The first n elements of a sequence (all of them when it is shorter).
Take(seq, n) == SubSeq(seq, 1, IF Len(seq) < n THEN Len(seq) ELSE n)

\* C30: a visit to a product page that carries product data leaves that
\* product at the head of the stored list, followed by the entries the list
\* held before for other products, unchanged and in their previous order,
\* cut after the fifth of them; no two entries share a handle; and the list
\* is always the six most recently viewed products, latest first, so the
\* entry that is cut is the least recently viewed one.
C30_MostRecentFirst ==
  /\ [][TrackedVisit =>
          LET product == location'.product
              Other(entry) == entry[1] # product
              before == IF localStorage.stored THEN localStorage.value ELSE << >>
              after == IF localStorage'.stored THEN localStorage'.value ELSE << >>
          IN  /\ Len(after) >= 1
              /\ after[1][1] = product
              /\ Tail(after) = Take(SelectSeq(before, Other), 5)]_vars
  /\ [](\A k, l \in 1..Len(StoredList) : k # l => StoredHandles[k] # StoredHandles[l])
  /\ [](StoredHandles = Take(recency, 6))

\* With the list full, a product reached through a collection URL went to
\* the head and the seventh product is no longer listed.
C30_Witness ==
  /\ Len(recency) = 7
  /\ Len(StoredList) = 6
  /\ location.pathname = "/collections/summer/products/tee"
  /\ StoredList[1][3] = location.pathname
  /\ \E k \in 2..6 : StoredList[k][3] = "/products/cap"

\* The step loads a page that is no product page by its path, or one from
\* which no handle or no title can be read.
UntrackedVisit ==
  \/ ~Includes(location'.pathname, "/products/")
  \/ location'.product = ""
  \/ location'.title = ""

\* C31: a visit to a page whose path does not contain /products/, or to a
\* product page without a handle or without a title, leaves the value stored
\* under storageKey as it was; a stored text that does not parse is read as
\* the empty list: the home page then shows the placeholder, and a tracked
\* visit stores the list of that one product.
C31_UntrackedVisitKeepsList ==
  /\ [][UntrackedVisit => localStorage' = localStorage]_vars
  /\ [](localStorage = Unparseable => getRecentlyViewed(localStorage) = << >>)
  /\ [][localStorage = Unparseable =>
          /\ location'.hasGrid => grid' = [display |-> "none", cards |-> << >>]
          /\ TrackedVisit =>
                localStorage' =
                  [stored |-> TRUE,
                   value |-> << << location'.product, location'.product,
                                  location'.pathname >> >>]]_vars

\* A product page without a title was loaded while its product was listed,
\* and the list still holds that product and five others.
C31_Witness ==
  /\ location = Page("/products/cap", "", FALSE, "cap")
  /\ Len(StoredList) = 6
  /\ \E k \in 2..6 : StoredList[k][1] = "cap"
  /\ recency[1] # "cap"

(* ----------------------------- autocomplete ---------------------------- *)

\* The debounce timers pending for an input.
DebouncePending(input) == { timer \in timers : timer.input = input }

\* C28: a suggestion fetch starts for an input only when 300 ms have passed
\* since that input's latest input event, it asks for the value typed last
\* (trimmed), and it is the only fetch started since that event; at most one
\* debounce timer is pending per input, and it is the one of the latest
\* input event: every earlier one was cleared.
C28_Debounced ==
  /\ [][\A fetch \in suggestFetches' \ suggestFetches :
          /\ now >= lastInputAt[fetch.input] + 300
          /\ fetch.query = Trim(inputValue[fetch.input])
          /\ ~fetched[fetch.input]]_vars
  /\ [](\A input \in Inputs : Cardinality(DebouncePending(input)) <= 1)
  /\ [](\A timer \in timers :
          /\ timer.due = lastInputAt[timer.input] + 300
          /\ timer.query = Trim(inputValue[timer.input]))

\* Three input events on one input, the last one 150 ms after the first;
\* one fetch, for the last value, started 300 ms after the last event.
C28_Witness ==
  /\ typed = 3
  /\ lastInputAt = [input \in Inputs |-> IF input = "desktop" THEN 150 ELSE 0]
  /\ inputValue = [input \in Inputs |-> IF input = "desktop" THEN "tee " ELSE ""]
  /\ now = 450
  /\ timers = {}
  /\ suggestFetches = {[input |-> "desktop", query |-> "tee"]}

(* ------------------------- partition contents ------------------------- *)

\* The URLs that have an entry in a partition, or a put on its way to it.
Keys(name) ==
  (IF name \in DOMAIN cacheStorage THEN DOMAIN cacheStorage[name] ELSE {})
    \cup { p.url : p \in { q \in pendingPuts : q.cache = name } }

\* The URLs of the pre-cache manifest.
ManifestUrls == { Url(SelfOrigin, STATIC_ASSETS[k]) : k \in 1..Len(STATIC_ASSETS) }

\* The strategy tag of a GET request for the URL.
TagOf(url) == determineCachingStrategy(Request("GET", url.origin, url.path))

\* C38: every key of the static partition (stored, or being stored) is a
\* manifest URL or a URL classified cache-first, every key of the dynamic
\* partition is a URL classified network-first or stale-while-revalidate,
\* and no URL is a key of both.
C38_PartitionsDisjoint ==
  /\ \A url \in Keys(STATIC_CACHE) : url \in ManifestUrls \/ TagOf(url) = "cache-first"
  /\ \A url \in Keys(DYNAMIC_CACHE) :
       TagOf(url) \in { "network-first", "stale-while-revalidate" }
  /\ Keys(STATIC_CACHE) \cap Keys(DYNAMIC_CACHE) = {}

\* The static partition holds the manifest and a fetched URL outside it,
\* the dynamic partition a page.
C38_Witness ==
  /\ pendingPuts = {}
  /\ Hit(cacheStorage, STATIC_CACHE, Url(SelfOrigin, "/assets/base.css"))
  /\ Hit(cacheStorage, STATIC_CACHE, Url(SelfOrigin, "/search/suggest.json"))
  /\ Hit(cacheStorage, DYNAMIC_CACHE, Url(SelfOrigin, "/collections/summer"))

\* C39: every response stored in a partition, or on its way to one, has
\* an ok status; and the step in which a network response with a status
\* that is not ok arrives, for a request or for a background update, issues
\* no put and leaves every partition as it was.
C39_OnlyOkStored ==
  /\ [](\A name \in DOMAIN cacheStorage : \A url \in DOMAIN cacheStorage[name] :
          cacheStorage[name][url].ok)
  /\ [](\A p \in pendingPuts : p.response.ok)
  /\ [][\A i \in 1..Len(requests) :
          (\/ requests[i].net # "notok" /\ requests'[i].net = "notok"
           \/ requests[i].bg # "notok" /\ requests'[i].bg = "notok") =>
            /\ pendingPuts' = pendingPuts
            /\ cacheStorage' = cacheStorage]_vars

\* A page served from the dynamic partition whose background update was
\* answered with a status that is not ok: the entry is still the one served.
C39_Witness ==
  \E i \in 1..Len(requests) :
    /\ requests[i].bg = "notok"
    /\ requests[i].outcome = "cached"
    /\ pendingPuts = {}
    /\ Hit(cacheStorage, DYNAMIC_CACHE, requests[i].url)
    /\ Match(cacheStorage, DYNAMIC_CACHE, requests[i].url) = requests[i].response

(* ------------------------- keyboard navigation ------------------------- *)

\* C37: ArrowDown or ArrowUp on a dropdown with items leaves exactly one
\* item selected: from no selection item 0 for ArrowDown and the last item
\* for ArrowUp, from item i its successor or predecessor, wrapping round at
\* the ends; the other dropdown is left alone, and a dropdown without
\* items is left as it is.
C37_ArrowKeysSelectOne ==
  [][\A input \in Inputs : \A direction \in Directions :
       ArrowKey(input, direction) =>
         LET n == dropdowns[input].items
             before == dropdowns[input].selected
             after == dropdowns'[input].selected
         IN  /\ \A other \in Inputs \ {input} : dropdowns'[other] = dropdowns[other]
             /\ n = 0 => dropdowns'[input] = dropdowns[input]
             /\ n >= 1 =>
                   /\ Cardinality(after) = 1
                   /\ after \subseteq 0..(n - 1)
                   /\ before = {} => after = {IF direction = 1 THEN 0 ELSE n - 1}
                   /\ \A i \in before :
                        after = {IF direction = 1
                                   THEN (IF i = n - 1 THEN 0 ELSE i + 1)
                                   ELSE (IF i = 0 THEN n - 1 ELSE i - 1)}
                   /\ dropdowns'[input] =
                        [dropdowns[input] EXCEPT !.selected = after]]_vars

\* The last of five items is selected in one dropdown and the last of three
\* in the other.
C37_Witness ==
  /\ dropdowns["desktop"].items = 5
  /\ dropdowns["desktop"].selected = {4}
  /\ dropdowns["mobile"].items = 3
  /\ dropdowns["mobile"].selected = {2}

(* ------------------------ autocomplete, continued ---------------------- *)

\* C32: an input event whose trimmed value is empty leaves no debounce timer
\* pending for that input (the one set before is cleared, none is set),
\* starts no fetch, takes the visible class off that input's dropdown and
\* sets the timer that puts its display to none 150 ms later; while an
\* input's trimmed value is empty no debounce timer is pending for it.
C32_EmptyInputCancels ==
  /\ [][\A input \in Inputs : \A value \in TypedValues :
          (HandleInput(input, value) /\ Trim(value) = "") =>
            /\ DebouncePending(input)' = {}
            /\ timers' \subseteq timers
            /\ suggestFetches' = suggestFetches
            /\ isLoading' = isLoading
            /\ ~dropdowns'[input].visible
            /\ [input |-> input, due |-> now + 150] \in hideTimers'
            /\ \A other \in Inputs \ {input} : dropdowns'[other] = dropdowns[other]]_vars
  /\ [](\A input \in Inputs : Trim(inputValue[input]) = "" => DebouncePending(input) = {})

\* An input was emptied 150 ms after a word was typed into it: the timer of
\* the word, remembered and not yet due, is gone and the hide timer is set.
C32_Witness ==
  /\ typed = 2
  /\ now = 150
  /\ inputValue["desktop"] = ""
  /\ debounceTimers["desktop"] = [input |-> "desktop", query |-> "te", due |-> 300]
  /\ timers = {}
  /\ hideTimers = {[input |-> "desktop", due |-> 300]}
  /\ suggestFetches = {}

\* C33: at most one suggestion fetch is in flight, over all inputs;
\* isLoading is true exactly while one is, so it is false again after every
\* settlement, with products, without, with a status that is not ok or by
\* rejection; a fetch starts only while isLoading is false.
C33_OneFetchInFlight ==
  /\ [](Cardinality(suggestFetches) <= 1)
  /\ [](isLoading <=> suggestFetches # {})
  /\ [][suggestFetches' # suggestFetches =>
          \/ suggestFetches = {} /\ ~isLoading /\ isLoading'
          \/ suggestFetches' = {} /\ isLoading /\ ~isLoading']_vars

\* The fetch of one input was rejected, and after it a fetch for the other
\* input is in flight.
C33_Witness ==
  /\ dropdowns["desktop"].innerHTML = "error"
  /\ isLoading
  /\ suggestFetches = {[input |-> "mobile", query |-> "te"]}

\* The outcome of a fetch for the input's current query is in its dropdown.
Rendered(input) ==
  /\ fetched[input]
  /\ \A fetch \in suggestFetches : fetch.input # input
  /\ dropdowns[input].query = Trim(inputValue[input])
  /\ dropdowns[input].innerHTML \in { "results", "no-results", "error" }

\* C34: when an input holds a non-empty query after the n-th input event
\* (its debounce delay ending within the time observed), then, unless a
\* further input event follows, a fetch for that query is issued and its
\* outcome is rendered in that input's dropdown.
C34_FinalQueryRendered ==
  \A input \in Inputs : \A n \in 1..MaxKeystrokes :
    (/\ typed = n
     /\ Trim(inputValue[input]) # ""
     /\ lastInputAt[input] + DebounceDelay <= MaxTicks * HideDelay)
      ~> (typed # n \/ Rendered(input))

\* C35: whenever a response is rendered into an input's dropdown by
\* displayResults (products, or the no-results text), the query it answers
\* is the input's current trimmed value; so a response that arrives after
\* the input was cleared or changed leaves the dropdown as it is.
C35_NeverStale ==
  [][\A fetch \in suggestFetches \ suggestFetches' :
       dropdowns'[fetch.input].innerHTML \in { "results", "no-results" } =>
         fetch.query = Trim(inputValue[fetch.input])]_vars

\* C36: once every pending timer has fired, no dropdown carries the visible
\* class while its display is none.
C36_MarkersConsistent ==
  (timers = {} /\ hideTimers = {}) =>
    \A input \in Inputs : ~(dropdowns[input].visible /\ dropdowns[input].display = "none")

TypeOK ==
  /\ Len(requests) <= MaxRequests
  /\ \A p \in pendingPuts : p.response.ok

====
